---- MODULE Spec2Model ----
(***************************************************************************)
(* Model of the signalling / matchmaking broker of tactical-card-battle.   *)
(* Every socket.io handler runs to completion on the single event loop,    *)
(* so each handler is one atomic action.  JavaScript null / undefined is   *)
(* modelled by NULL; socket ids, game ids and user ids are positive        *)
(* integers handed out in increasing order (ids are never reused).         *)
(***************************************************************************)
EXTENDS Integers, Sequences, FiniteSets, TLC

\* ---- bounds of the model ----
MaxConn == 4
MaxGames == 2
MaxTicks == 1
RankedConns == 2
RankedGames == 1
LobbyConns == 3
LobbyGames == 2
MatchConns == 4
IdleConns == 2
IdleGames == 1
IdleTicks == 3
MaxWaitingStat == 2
AuthConns == 1
AuthTicks == 4
AuthSaves == 1
AuthMock == 1
MaxFlights == 2
HeartConns == 2
HeartGames == 1
HeartTicks == 6
MirrorConns == 3
MirrorGames == 1
LifeConns == 2
LifeGames == 2
LifeTicks == 3
SaveTicks == 6
SaveMock == 3
ScoreConns == 2
ScoreGames == 1
ScoreSaves == 1
ScoreMock == 2
MaxHashing == 2
TrophySaves == 1
TearConns == 2
TearGames == 2
TearTicks == 1
FormerConns == 2
FormerGames == 2
FormerTicks == 1
MaxLegacyEntries == 2
ThrowConns == 3
ThrowGames == 1
MaxUserId == 4
AccountTicks == 2

\* ---- program constants ----
HEARTBEAT_TIMEOUT_MS == 120000
IDLE_TIMEOUT_MS == 300000
SESSION_TTL_MS == 86400000
SWEEP_INTERVAL_MS == 30000
SAVE_DEBOUNCE_MS == 200

\* granularity of the model clock (time between two observations of Date.now())
TickMs == 310000
IdleTickMs == 110000
AuthTickMs == 43200000
SaveTickMs == 100
LifeTickMs == 110000
AccountTickMs == 1800000

NULL == 0
\* lastNicknameChange of an account that never changed its nickname (0 in the code,
\* where Date.now() is never 0; the clock of the model starts at 0)
NeverChanged == -1
SocketIds == 1 .. MaxConn
GameIds == 1 .. MaxGames
UserIds == {1, 2}
\* session token t was issued to account t; token 3 is unknown to the server
Tokens == {1, 2, 3}
ClientNames == {"alice"}
Snapshots == {"s1"}

VARIABLES
    sockets,          \* io.sockets.sockets: ids of the live transport connections
    nextSocketId,     \* next fresh socket id
    playerSessions,   \* Map socketId -> playerInfo
    waitingPlayers,   \* Map socketId -> playerInfo, as the sequence of its keys in insertion order
    activeGames,      \* Map gameId -> gameSession
    nextGameId,       \* next fresh gameId
    gameStates,       \* Map gameId -> latest snapshot
    pendingResults,   \* Map gameId -> claims (socketId -> claimed winner)
    users,            \* Map userId -> account
    sessions,         \* Map token -> {userId, expiresAt, lastUsedAt}
    rankings,         \* {mock, formal}: Map userId -> score
    serverStats,      \* the serverStats object
    now,              \* Date.now()
    nextSweepAt,      \* when the setInterval sweep fires next
    out,              \* what the handler that ran last sent to clients or logged (the
                      \* serverStats broadcasts, pong and loginResult replies are left out:
                      \* serverStats is a variable, the replies carry no state)
    ledgerWrites,     \* history: per gameId, how often finalizeGameResult wrote the ranking
    lastRelayAt,      \* history: per gameId, when a message was last relayed in the
                      \* session (its creation time before the first one)
    saveTimer,        \* when the pending debounce timer of saveData fires, NULL when none
    flights,          \* the saveDataImmediate calls in progress, oldest first
    disk,             \* contents of the users, rankings and sessions files
    db,               \* what the last db.upsert* calls stored
    halted,           \* process.exit was called
    usernames,        \* Map username -> userId
    nextUserId,       \* next fresh userId
    hashing           \* the register requests suspended at bcrypt.hash, in order of arrival

vars == <<sockets, nextSocketId, playerSessions, waitingPlayers, activeGames, nextGameId,
          gameStates, pendingResults, users, sessions, rankings, serverStats, now,
          nextSweepAt, out, ledgerWrites, lastRelayAt, saveTimer, flights, disk, db, halted, usernames, nextUserId, hashing>>

\* ---- JavaScript Map helpers ----
MapHas(m, k) == k \in DOMAIN m
MapGet(m, k) == IF k \in DOMAIN m THEN m[k] ELSE NULL
MapSet(m, k, v) == [x \in DOMAIN m \cup {k} |-> IF x = k THEN v ELSE m[x]]
MapDelete(m, k) == [x \in DOMAIN m \ {k} |-> m[x]]
Max(a, b) == IF a >= b THEN a ELSE b
SeqWithout(s, k) == SelectSeq(s, LAMBDA x : x # k)
InSeq(s, k) == \E i \in DOMAIN s : s[i] = k

\* ---- the mutable server state as one value, so that handlers compose ----
Store == [sockets |-> sockets, playerSessions |-> playerSessions,
          waitingPlayers |-> waitingPlayers, activeGames |-> activeGames,
          nextGameId |-> nextGameId, gameStates |-> gameStates,
          pendingResults |-> pendingResults, users |-> users, sessions |-> sessions,
          rankings |-> rankings, serverStats |-> serverStats, out |-> <<>>,
          ledgerWrites |-> ledgerWrites, lastRelayAt |-> lastRelayAt, now |-> now,
          saveTimer |-> saveTimer, flights |-> flights, disk |-> disk, db |-> db,
          halted |-> halted, usernames |-> usernames, nextUserId |-> nextUserId,
          hashing |-> hashing]

Install(S) ==
    \E T \in {S} :
        /\ sockets' = T.sockets
        /\ playerSessions' = T.playerSessions
        /\ waitingPlayers' = T.waitingPlayers
        /\ activeGames' = T.activeGames
        /\ nextGameId' = T.nextGameId
        /\ gameStates' = T.gameStates
        /\ pendingResults' = T.pendingResults
        /\ users' = T.users
        /\ sessions' = T.sessions
        /\ rankings' = T.rankings
        /\ serverStats' = T.serverStats
        /\ out' = T.out
        /\ ledgerWrites' = T.ledgerWrites
        /\ lastRelayAt' = T.lastRelayAt
        /\ saveTimer' = T.saveTimer
        /\ flights' = T.flights
        /\ disk' = T.disk
        /\ db' = T.db
        /\ halted' = T.halted
        /\ usernames' = T.usernames
        /\ nextUserId' = T.nextUserId
        /\ hashing' = T.hashing

Emit(S, msg) == [S EXCEPT !.out = Append(@, msg)]

\* ---- utils/game.js ----
getGameIdOf(ps, socketId) ==
    IF socketId \in DOMAIN ps THEN ps[socketId].gameId ELSE NULL

\* index of the first player of the session satisfying the test, 0 when none
FindOther(players, socketId) ==
    IF players[1].id # socketId THEN 1 ELSE IF players[2].id # socketId THEN 2 ELSE 0
FindSelf(players, socketId) ==
    IF players[1].id = socketId THEN 1 ELSE IF players[2].id = socketId THEN 2 ELSE 0

getOpponentSocketId(ag, gameId, socketId) ==
    IF gameId \notin DOMAIN ag THEN NULL
    ELSE LET i == FindOther(ag[gameId].players, socketId)
         IN  IF i = 0 THEN NULL ELSE ag[gameId].players[i].id

\* seeded fault: the session the two records name is not looked up
arePlayersInSameGameStale(ps, ag, aSocketId, bSocketId) ==
    LET aGame == getGameIdOf(ps, aSocketId)
        bGame == getGameIdOf(ps, bSocketId)
    IN  /\ aGame # NULL
        /\ bGame # NULL
        /\ aGame = bGame

arePlayersInSameGame(ps, ag, aSocketId, bSocketId) ==
    LET aGame == getGameIdOf(ps, aSocketId)
        bGame == getGameIdOf(ps, bSocketId)
    IN  /\ aGame # NULL
        /\ bGame # NULL
        /\ aGame = bGame
        /\ aGame \in DOMAIN ag

isPlayerConnected(S, playerId) == playerId \in S.sockets

\* ---- utils/session.js ----
\* seeded fault: a successful lookup does not extend the expiry
getUserIdFromSessionNoSlide(ss, sessionId, t) ==
    IF sessionId \notin DOMAIN ss THEN [sessions |-> ss, userId |-> NULL]
    ELSE IF ss[sessionId].expiresAt # 0 /\ ss[sessionId].expiresAt < t
         THEN [sessions |-> MapDelete(ss, sessionId), userId |-> NULL]
         ELSE [sessions |-> [ss EXCEPT ![sessionId].lastUsedAt = t],
               userId |-> ss[sessionId].userId]

\* seeded fault: an expired token is rejected but left in the store
getUserIdFromSessionKeepsExpired(ss, sessionId, t) ==
    IF sessionId \notin DOMAIN ss THEN [sessions |-> ss, userId |-> NULL]
    ELSE IF ss[sessionId].expiresAt # 0 /\ ss[sessionId].expiresAt < t
         THEN [sessions |-> ss, userId |-> NULL]
         ELSE [sessions |-> [ss EXCEPT ![sessionId].lastUsedAt = t,
                                       ![sessionId].expiresAt = t + SESSION_TTL_MS],
               userId |-> ss[sessionId].userId]

\* the store after the lookup, and the user id it returns (NULL when rejected)
getUserIdFromSession(ss, sessionId, t) ==
    IF sessionId \notin DOMAIN ss THEN [sessions |-> ss, userId |-> NULL]
    ELSE IF ss[sessionId].expiresAt # 0 /\ ss[sessionId].expiresAt < t
         THEN [sessions |-> MapDelete(ss, sessionId), userId |-> NULL]
         ELSE [sessions |-> [ss EXCEPT ![sessionId].lastUsedAt = t,
                                       ![sessionId].expiresAt = t + SESSION_TTL_MS],
               userId |-> ss[sessionId].userId]


\* ---- values standing for JavaScript null / undefined of string type ----
NoName == "<null>"
NoSnapshot == "<undefined>"
GuestName == "guest"

\* ---- saveData: (re)arm the debounce timer ----
\* seeded fault: a pending timer is left as it is
saveDataKeepsTimer(S) ==
    IF S.saveTimer # NULL THEN S ELSE [S EXCEPT !.saveTimer = S.now + SAVE_DEBOUNCE_MS]

saveData(S) == [S EXCEPT !.saveTimer = S.now + SAVE_DEBOUNCE_MS]

\* ---- rankings.<category>.set(userId, score) ----
\* seeded fault: an entry that exists is left as it is
rankingSetIfAbsent(rankMap, userId, score) ==
    IF userId \in DOMAIN rankMap THEN rankMap ELSE MapSet(rankMap, userId, score)

rankingSet(rankMap, userId, score) == MapSet(rankMap, userId, score)

\* ---- finalizeGameResult ----
\* seeded fault: only the winner's guest flag is looked at
isGuestMatchWinnerOnly(winner, loser) == winner.isGuest

\* seeded fault: the guest flags recorded at pairing are not looked at
isGuestMatchIgnored(winner, loser) == FALSE

\* a match with a guest is not ranked
isGuestMatch(winner, loser) == winner.isGuest \/ loser.isGuest

\* formal duel: +2 for the win, -1 for the loss, never below 0
winnerUpdatedOf(winnerCurrent) == Max(0, winnerCurrent + 2)
\* seeded fault: the loser's score is not floored at 0
loserUpdatedNoFloor(loserCurrent) == loserCurrent - 1
loserUpdatedOf(loserCurrent) == Max(0, loserCurrent - 1)

finalizeGameResult(S, gameId, winnerSocketId) ==
    IF gameId \notin DOMAIN S.activeGames THEN S
    ELSE
    LET session == S.activeGames[gameId]
        li == FindOther(session.players, winnerSocketId)
        wi == FindSelf(session.players, winnerSocketId)
    IN  IF wi = 0 \/ li = 0 THEN S
        ELSE
        LET winner == session.players[wi]
            loser == session.players[li]
        IN  IF isGuestMatch(winner, loser) THEN S
            ELSE IF winner.id \notin DOMAIN S.playerSessions
                    \/ loser.id \notin DOMAIN S.playerSessions THEN S
            ELSE
            LET winnerInfo == S.playerSessions[winner.id]
                loserInfo == S.playerSessions[loser.id]
            IN  IF winnerInfo.userId \notin DOMAIN S.users
                   \/ loserInfo.userId \notin DOMAIN S.users THEN S
                ELSE
                LET winnerCurrent == S.users[winnerInfo.userId].trophies.formal
                    loserCurrent == S.users[loserInfo.userId].trophies.formal
                    winnerUpdated == winnerUpdatedOf(winnerCurrent)
                    loserUpdated == loserUpdatedOf(loserCurrent)
                    users1 == [S.users EXCEPT ![winnerInfo.userId].trophies.formal = winnerUpdated]
                    users2 == [users1 EXCEPT ![loserInfo.userId].trophies.formal = loserUpdated]
                    formal1 == rankingSet(S.rankings.formal, winnerInfo.userId, winnerUpdated)
                    formal2 == rankingSet(formal1, loserInfo.userId, loserUpdated)
                IN  saveData([S EXCEPT !.users = users2,
                                       !.rankings.formal = formal2,
                                       !.ledgerWrites[gameId] = @ + 1])

\* ---- io.on('connection') ----
NewPlayerInfo(id, t) ==
    [id |-> id, name |-> NoName, isWaiting |-> FALSE, gameId |-> NULL, opponent |-> NULL,
     lastPing |-> t, isGuest |-> TRUE, userId |-> NULL, sessionId |-> NULL]

Connect(maxConn) ==
    /\ nextSocketId <= maxConn
    /\ LET id == nextSocketId
           S1 == [Store EXCEPT !.sockets = @ \cup {id},
                               !.serverStats.totalConnections = @ + 1,
                               !.playerSessions = MapSet(@, id, NewPlayerInfo(id, now))]
       IN  Install(S1)
    /\ nextSocketId' = nextSocketId + 1
    /\ UNCHANGED <<now, nextSweepAt>>

\* ---- socket.on('ping') ----
Ping(c) ==
    /\ c \in sockets
    /\ playerSessions' = [playerSessions EXCEPT ![c].lastPing = now]
    /\ out' = <<>>
    /\ UNCHANGED <<sockets, nextSocketId, waitingPlayers, activeGames, nextGameId, gameStates,
                   pendingResults, users, sessions, rankings, serverStats, now, nextSweepAt,
                   ledgerWrites, lastRelayAt, saveTimer, flights, disk, db, halted, usernames, nextUserId, hashing>>

\* ---- socket.on('login') ----
Login(c, sessionId) ==
    /\ c \in sockets
    /\ LET r == getUserIdFromSession(sessions, sessionId, now)
           S1 == [Store EXCEPT !.sessions = r.sessions]
           S2 == IF r.userId = NULL \/ r.userId \notin DOMAIN users
                 THEN S1
                 ELSE [S1 EXCEPT !.playerSessions[c].isGuest = FALSE,
                                 !.playerSessions[c].userId = r.userId,
                                 !.playerSessions[c].sessionId = sessionId,
                                 !.playerSessions[c].name = users[r.userId].nickname]
       IN  Install(S2)
    /\ UNCHANGED <<nextSocketId, now, nextSweepAt>>

\* ---- socket.on('requestMatch') ----
\* seeded fault: the liveness test of the waiting peer is inverted
FirstMatchNotConnected(S, c) ==
    LET ok == {i \in DOMAIN S.waitingPlayers :
                  S.waitingPlayers[i] # c /\ ~isPlayerConnected(S, S.waitingPlayers[i])}
    IN  IF ok = {} THEN NULL
        ELSE S.waitingPlayers[CHOOSE i \in ok : \A j \in ok : i <= j]

\* seeded fault: the requester itself is accepted as a peer
FirstMatchAllowsSelf(S, c) ==
    LET ok == {i \in DOMAIN S.waitingPlayers : isPlayerConnected(S, S.waitingPlayers[i])}
    IN  IF ok = {} THEN NULL
        ELSE S.waitingPlayers[CHOOSE i \in ok : \A j \in ok : i <= j]

\* the first waiting entry, in Map order, that is another socket and still connected
FirstMatch(S, c) ==
    LET ok == {i \in DOMAIN S.waitingPlayers :
                  S.waitingPlayers[i] # c /\ isPlayerConnected(S, S.waitingPlayers[i])}
    IN  IF ok = {} THEN NULL
        ELSE S.waitingPlayers[CHOOSE i \in ok : \A j \in ok : i <= j]

\* seeded fault: both sides are told they host
matchFoundBothHost(to, gameId, opponent, isHost) ==
    [ev |-> "matchFound", to |-> to, gameId |-> gameId, opponent |-> opponent,
     isHost |-> TRUE]

matchFound(to, gameId, opponent, isHost) ==
    [ev |-> "matchFound", to |-> to, gameId |-> gameId, opponent |-> opponent,
     isHost |-> isHost]

\* seeded fault: the client-supplied name is used for account users as well
playerNameFromClient(S, playerInfo, dataPlayerName) ==
    IF dataPlayerName # NoName THEN dataPlayerName ELSE GuestName

\* name selection: the account's nickname for an account user, the client's name for a
\* guest
playerNameOf(S, playerInfo, dataPlayerName) ==
    IF ~playerInfo.isGuest /\ playerInfo.userId # NULL
    THEN IF playerInfo.userId \in DOMAIN S.users
            /\ S.users[playerInfo.userId].nickname # NoName
         THEN S.users[playerInfo.userId].nickname ELSE GuestName
    ELSE IF dataPlayerName # NoName THEN dataPlayerName ELSE GuestName

requestMatch(S, c, dataPlayerName, t) ==
    LET playerInfo == S.playerSessions[c]
        playerName == playerNameOf(S, playerInfo, dataPlayerName)
        S1 == [S EXCEPT !.playerSessions[c].name = playerName,
                        !.playerSessions[c].isWaiting = TRUE]
        m == FirstMatch(S1, c)
    IN  IF m # NULL
        THEN
        LET matchedPlayer == S1.playerSessions[m]
            gameId == S1.nextGameId
            gameSession ==
                [id |-> gameId,
                 players |-> <<[id |-> c, name |-> playerName, isHost |-> TRUE,
                                isGuest |-> playerInfo.isGuest],
                               [id |-> m, name |-> matchedPlayer.name, isHost |-> FALSE,
                                isGuest |-> matchedPlayer.isGuest]>>,
                 createdAt |-> t, lastActivity |-> t]
            S2 == [S1 EXCEPT
                     !.serverStats.totalMatches = @ + 1,
                     !.waitingPlayers = SeqWithout(SeqWithout(@, m), c),
                     !.nextGameId = @ + 1,
                     !.activeGames = MapSet(@, gameId, gameSession),
                     !.lastRelayAt[gameId] = t,
                     !.playerSessions[c].gameId = gameId,
                     !.playerSessions[c].opponent = m,
                     !.playerSessions[m].gameId = gameId,
                     !.playerSessions[m].opponent = c]
            S3 == Emit(S2, matchFound(c, gameId, [id |-> m, name |-> matchedPlayer.name,
                                                  isGuest |-> matchedPlayer.isGuest], TRUE))
            S4 == Emit(S3, matchFound(m, gameId, [id |-> c, name |-> playerName,
                                                  isGuest |-> playerInfo.isGuest], FALSE))
            S5 == [S4 EXCEPT !.serverStats.activeGames = @ + 1,
                             !.serverStats.waitingPlayers = Max(0, @ - 2)]
        IN  S5
        ELSE
        LET S2 == [S1 EXCEPT
                     !.waitingPlayers = IF InSeq(@, c) THEN @ ELSE Append(@, c),
                     !.serverStats.waitingPlayers = @ + 1]
            S3 == Emit(S2, [ev |-> "waitingForMatch", to |-> c,
                            waitingCount |-> S2.serverStats.waitingPlayers])
        IN  S3

RequestMatch(c, dataPlayerName, maxGames, maxWaitingStat) ==
    /\ c \in sockets
    /\ IF FirstMatch(Store, c) # NULL
       THEN nextGameId <= maxGames
       ELSE serverStats.waitingPlayers < maxWaitingStat
    /\ Install(requestMatch(Store, c, dataPlayerName, now))
    /\ UNCHANGED <<nextSocketId, now, nextSweepAt>>


\* ---- relay handlers: offer / answer / iceCandidate ----
relayAllowed(S, c, target) ==
    isPlayerConnected(S, target) /\ arePlayersInSameGame(S.playerSessions, S.activeGames, c, target)

ServerError(c, context) == [ev |-> "serverError", to |-> c, context |-> context]

\* the history of relayed messages: an authorised relay touches the sender's session
Relayed(c, target) ==
    IF relayAllowed(Store, c, target)
    THEN [lastRelayAt EXCEPT ![playerSessions[c].gameId] = now]
    ELSE lastRelayAt

Offer(c, target) ==
    /\ c \in sockets
    /\ out' = IF relayAllowed(Store, c, target)
              THEN <<[ev |-> "offer", to |-> target, from |-> c]>>
              ELSE <<ServerError(c, "offer"), [ev |-> "error", to |-> c, context |-> "offer"]>>
    /\ lastRelayAt' = Relayed(c, target)
    /\ UNCHANGED <<sockets, nextSocketId, playerSessions, waitingPlayers, activeGames,
                   nextGameId, gameStates, pendingResults, users, sessions, rankings,
                   serverStats, now, nextSweepAt, ledgerWrites, saveTimer, flights, disk, db,
                   halted, usernames, nextUserId, hashing>>

Answer(c, target) ==
    /\ c \in sockets
    /\ out' = IF relayAllowed(Store, c, target)
              THEN <<[ev |-> "answer", to |-> target, from |-> c]>>
              ELSE <<>>
    /\ lastRelayAt' = Relayed(c, target)
    /\ UNCHANGED <<sockets, nextSocketId, playerSessions, waitingPlayers, activeGames,
                   nextGameId, gameStates, pendingResults, users, sessions, rankings,
                   serverStats, now, nextSweepAt, ledgerWrites, saveTimer, flights, disk, db,
                   halted, usernames, nextUserId, hashing>>

IceCandidate(c, target) ==
    /\ c \in sockets
    /\ out' = IF relayAllowed(Store, c, target)
              THEN <<[ev |-> "iceCandidate", to |-> target, from |-> c]>>
              ELSE <<>>
    /\ lastRelayAt' = Relayed(c, target)
    /\ UNCHANGED <<sockets, nextSocketId, playerSessions, waitingPlayers, activeGames,
                   nextGameId, gameStates, pendingResults, users, sessions, rankings,
                   serverStats, now, nextSweepAt, ledgerWrites, saveTimer, flights, disk, db,
                   halted, usernames, nextUserId, hashing>>

\* ---- relay handlers that also mirror the snapshot: gameState / cardPlayed / turnEnd ----
\* seeded fault: a session's first snapshot is never overwritten
mirrorSetKeepsFirst(gs, gameId, gameState) ==
    IF gameId \in DOMAIN gs THEN gs ELSE MapSet(gs, gameId, gameState)

\* gameStates.set(gameId, gameState)
mirrorSet(gs, gameId, gameState) == MapSet(gs, gameId, gameState)

GameState(c, target, gameState) ==
    /\ c \in sockets
    /\ IF relayAllowed(Store, c, target)
       THEN /\ gameStates' = IF playerSessions[c].gameId # NULL
                             THEN mirrorSet(gameStates, playerSessions[c].gameId, gameState)
                             ELSE gameStates
            /\ out' = <<[ev |-> "gameState", to |-> target, from |-> c,
                         gameState |-> gameState]>>
       ELSE /\ gameStates' = gameStates
            /\ out' = <<>>
    /\ lastRelayAt' = Relayed(c, target)
    /\ UNCHANGED <<sockets, nextSocketId, playerSessions, waitingPlayers, activeGames,
                   nextGameId, pendingResults, users, sessions, rankings,
                   serverStats, now, nextSweepAt, ledgerWrites, saveTimer, flights, disk, db,
                   halted, usernames, nextUserId, hashing>>

CardPlayed(c, target, gameState) ==
    /\ c \in sockets
    /\ IF relayAllowed(Store, c, target)
       THEN /\ gameStates' = IF gameState # NoSnapshot /\ playerSessions[c].gameId # NULL
                             THEN mirrorSet(gameStates, playerSessions[c].gameId, gameState)
                             ELSE gameStates
            /\ out' = <<[ev |-> "cardPlayed", to |-> target, from |-> c,
                         gameState |-> gameState]>>
       ELSE /\ gameStates' = gameStates
            /\ out' = <<>>
    /\ lastRelayAt' = Relayed(c, target)
    /\ UNCHANGED <<sockets, nextSocketId, playerSessions, waitingPlayers, activeGames,
                   nextGameId, pendingResults, users, sessions, rankings,
                   serverStats, now, nextSweepAt, ledgerWrites, saveTimer, flights, disk, db,
                   halted, usernames, nextUserId, hashing>>

TurnEnd(c, target, gameState) ==
    /\ c \in sockets
    /\ IF relayAllowed(Store, c, target)
       THEN /\ gameStates' = IF gameState # NoSnapshot /\ playerSessions[c].gameId # NULL
                             THEN mirrorSet(gameStates, playerSessions[c].gameId, gameState)
                             ELSE gameStates
            /\ out' = <<[ev |-> "turnEnd", to |-> target, from |-> c,
                         gameState |-> gameState]>>
       ELSE /\ gameStates' = gameStates
            /\ out' = <<>>
    /\ lastRelayAt' = Relayed(c, target)
    /\ UNCHANGED <<sockets, nextSocketId, playerSessions, waitingPlayers, activeGames,
                   nextGameId, pendingResults, users, sessions, rankings,
                   serverStats, now, nextSweepAt, ledgerWrites, saveTimer, flights, disk, db,
                   halted, usernames, nextUserId, hashing>>

\* ---- a 'requestGameState' event: the connection handler registers no listener for
\* it, so the event is dropped: nothing is sent and nothing changes ----
RequestGameState(c) ==
    /\ c \in sockets
    /\ out' = <<>>
    /\ UNCHANGED <<sockets, nextSocketId, playerSessions, waitingPlayers, activeGames,
                   nextGameId, gameStates, pendingResults, users, sessions, rankings,
                   serverStats, now, nextSweepAt, ledgerWrites, lastRelayAt, saveTimer,
                   flights, disk, db, halted, usernames, nextUserId, hashing>>

\* ---- socket.on('gameOver') ----
\* seeded fault: any claim of the opponent commits the outcome
claimsAgreeAnyClaim(otherClaim, winner) == otherClaim # NULL

\* the two claims agree: the opponent has claimed, and claimed the same winner
claimsAgree(otherClaim, winner) == otherClaim # NULL /\ otherClaim = winner

\* seeded fault: the committed session is left in the active-games map
commitCleanupKeepsSession(S, gameId) ==
    [S EXCEPT !.pendingResults = MapDelete(@, gameId),
              !.gameStates = MapDelete(@, gameId)]

\* seeded fault: the session is removed without the statistics being told
commitCleanupKeepsCount(S, gameId) ==
    [S EXCEPT !.pendingResults = MapDelete(@, gameId),
              !.activeGames = MapDelete(@, gameId),
              !.gameStates = MapDelete(@, gameId)]

\* seeded fault: the mirror of the committed session is left behind
commitCleanupKeepsMirror(S, gameId) ==
    [S EXCEPT !.pendingResults = MapDelete(@, gameId),
              !.activeGames = MapDelete(@, gameId),
              !.serverStats.activeGames = Max(0, @ - 1)]

\* clean-up after a committed outcome
commitCleanup(S, gameId) ==
    [S EXCEPT !.pendingResults = MapDelete(@, gameId),
              !.activeGames = MapDelete(@, gameId),
              !.gameStates = MapDelete(@, gameId),
              !.serverStats.activeGames = Max(0, @ - 1)]

gameOver(S, c, target, winner, gameState) ==
    IF ~relayAllowed(S, c, target) THEN S
    ELSE
    LET gameId == getGameIdOf(S.playerSessions, c)
    IN  IF gameId = NULL THEN S
        ELSE
        LET S1 == IF gameState # NoSnapshot
                  THEN [S EXCEPT !.gameStates = mirrorSet(@, gameId, gameState)] ELSE S
            opponentId == getOpponentSocketId(S1.activeGames, gameId, c)
        IN  IF winner # c /\ winner # opponentId THEN S1
            ELSE
            LET claims0 == IF gameId \in DOMAIN S1.pendingResults
                           THEN S1.pendingResults[gameId] ELSE [x \in {} |-> NULL]
                claims == MapSet(claims0, c, winner)
                S2 == [S1 EXCEPT !.pendingResults = MapSet(@, gameId, claims)]
                otherClaim == MapGet(claims, opponentId)
            IN  IF claimsAgree(otherClaim, winner)
                THEN
                LET S3 == finalizeGameResult(S2, gameId, winner)
                    S4 == Emit(S3, [ev |-> "gameOver", to |-> opponentId, from |-> c,
                                    winner |-> winner, gameState |-> gameState])
                    S5 == Emit(S4, [ev |-> "gameOver", to |-> c, from |-> opponentId,
                                    winner |-> winner, gameState |-> gameState])
                IN  commitCleanup(S5, gameId)
                ELSE S2

GameOver(c, target, winner, gameState) ==
    /\ c \in sockets
    /\ Install(gameOver(Store, c, target, winner, gameState))
    /\ UNCHANGED <<nextSocketId, now, nextSweepAt>>

\* ---- socket.on('disconnect') ----
\* seeded fault: the waiting entry of the connection that leaves is kept
leaveWaitingKeepsEntry(S, c) == S

\* if (waitingPlayers.has(socket.id)) { waitingPlayers.delete(socket.id); ... }
leaveWaiting(S, c) ==
    IF InSeq(S.waitingPlayers, c)
    THEN [S EXCEPT !.waitingPlayers = SeqWithout(@, c),
                   !.serverStats.waitingPlayers = Max(0, @ - 1)]
    ELSE S

\* socket.io has already removed the socket from io.sockets.sockets when the handler runs
onDisconnect(S, c) ==
    LET S0 == [S EXCEPT !.sockets = @ \ {c}]
        playerInfo == S0.playerSessions[c]
        S1 == leaveWaiting(S0, c)
        S2 == IF playerInfo.gameId # NULL /\ playerInfo.gameId \in DOMAIN S1.activeGames
              THEN
              LET gameSession == S1.activeGames[playerInfo.gameId]
                  oi == FindOther(gameSession.players, c)
                  di == FindSelf(gameSession.players, c)
                  Sa == IF oi # 0 /\ isPlayerConnected(S1, gameSession.players[oi].id)
                        THEN
                        LET opponentPlayer == gameSession.players[oi]
                            Sm == Emit(S1, [ev |-> "opponentDisconnected",
                                            to |-> opponentPlayer.id,
                                            gameId |-> playerInfo.gameId,
                                            disconnectedPlayerName |->
                                                IF di # 0 THEN gameSession.players[di].name
                                                ELSE "Unknown",
                                            disconnectedPlayerId |-> c,
                                            isDisconnectedAsLoser |-> TRUE])
                            opponentInfo == MapGet(Sm.playerSessions, opponentPlayer.id)
                        IN  IF /\ opponentPlayer.id \in DOMAIN Sm.playerSessions
                               /\ opponentInfo.userId # NULL
                               /\ ~opponentInfo.isGuest
                               /\ playerInfo.userId # NULL
                               /\ ~playerInfo.isGuest
                               /\ getGameIdOf(Sm.playerSessions, c) # NULL
                            THEN finalizeGameResult(Sm, getGameIdOf(Sm.playerSessions, c),
                                                    opponentPlayer.id)
                            ELSE Sm
                        ELSE S1
              IN  [Sa EXCEPT !.activeGames = MapDelete(@, playerInfo.gameId),
                             !.gameStates = MapDelete(@, playerInfo.gameId),
                             !.serverStats.activeGames = Max(0, @ - 1)]
              ELSE S1
        S3 == [S2 EXCEPT !.playerSessions = MapDelete(@, c),
                         !.serverStats.totalConnections = Max(0, @ - 1)]
    IN  S3

Disconnect(c) ==
    /\ c \in sockets
    /\ Install(onDisconnect(Store, c))
    /\ UNCHANGED <<nextSocketId, now, nextSweepAt>>


\* ---- a handler whose payload is missing: destructuring undefined throws inside the
\* try block, and the catch hands the error to handleError ----
\* seeded fault: the error handler also tears the connection down
handleErrorDropsConnection(S, c, context) ==
    onDisconnect(Emit(S, ServerError(c, context)), c)

\* socket.emit('serverError', payload); socket.emit('error', payload)
handleError(S, c, context) ==
    Emit(Emit(S, ServerError(c, context)), [ev |-> "error", to |-> c, context |-> context])

\* the handlers whose first statement destructures the payload
DestructuringEvents ==
    {"login", "offer", "answer", "iceCandidate", "gameState", "cardPlayed", "turnEnd",
     "gameOver"}

EventWithoutPayload(c, event) ==
    /\ c \in sockets
    /\ Install(handleError(Store, c, event))
    /\ UNCHANGED <<nextSocketId, now, nextSweepAt>>

\* requestMatch reads data.playerName only for a guest; an account user's request runs
\* as it does with a payload
readsPayload(playerInfo) == ~(~playerInfo.isGuest /\ playerInfo.userId # NULL)

RequestMatchWithoutPayload(c, maxGames, maxWaitingStat) ==
    /\ c \in sockets
    /\ IF readsPayload(playerSessions[c])
       THEN /\ Install(handleError(Store, c, "requestMatch"))
            /\ UNCHANGED <<nextSocketId, now, nextSweepAt>>
       ELSE RequestMatch(c, NoName, maxGames, maxWaitingStat)

\* ---- setInterval sweep (every 30 s) ----
\* heartbeat loop: playerSessions is iterated in insertion order, i.e. by increasing
\* socket id; targetSocket.disconnect(true) runs the disconnect handler synchronously
\* seeded fault: a ping exactly 120 s old already counts as a timeout
heartbeatExpiredInclusive(lastPing, currentTime) ==
    currentTime - lastPing >= HEARTBEAT_TIMEOUT_MS

heartbeatExpired(lastPing, currentTime) == currentTime - lastPing > HEARTBEAT_TIMEOUT_MS

RECURSIVE sweepSockets(_, _, _)
sweepSockets(S, id, currentTime) ==
    IF id > MaxConn THEN S
    ELSE CHOOSE R \in
           {IF /\ id \in DOMAIN T.playerSessions
               /\ heartbeatExpired(T.playerSessions[id].lastPing, currentTime)
            THEN sweepSockets(IF id \in T.sockets THEN onDisconnect(T, id) ELSE T,
                              id + 1, currentTime)
            ELSE sweepSockets(T, id + 1, currentTime) : T \in {S}} : TRUE

\* seeded fault: the idle session is removed but its state mirror is kept
reapGameKeepsMirror(S, gameId) ==
    [S EXCEPT !.activeGames = MapDelete(@, gameId),
              !.serverStats.activeGames = Max(0, @ - 1)]

\* one idle session is removed
\* seeded fault: the idle session loses its mirror but stays in the active-games map
reapGameKeepsSession(S, gameId) ==
    [S EXCEPT !.gameStates = MapDelete(@, gameId)]

reapGame(S, gameId) ==
    [S EXCEPT !.activeGames = MapDelete(@, gameId),
              !.gameStates = MapDelete(@, gameId),
              !.serverStats.activeGames = Max(0, @ - 1)]

RECURSIVE sweepGames(_, _, _)
sweepGames(S, gameId, currentTime) ==
    IF gameId > MaxGames THEN S
    ELSE CHOOSE R \in
           {IF /\ gameId \in DOMAIN T.activeGames
               /\ currentTime - T.activeGames[gameId].lastActivity > IDLE_TIMEOUT_MS
            THEN LET S1 == Emit(T, [ev |-> "log", what |-> "reap", id |-> gameId])
                 IN  sweepGames(reapGame(S1, gameId), gameId + 1, currentTime)
            ELSE sweepGames(T, gameId + 1, currentTime) : T \in {S}} : TRUE

sweepSessions(S, currentTime) ==
    LET expired == {sid \in DOMAIN S.sessions :
                       S.sessions[sid].expiresAt # 0 /\ S.sessions[sid].expiresAt < currentTime}
    IN  [S EXCEPT !.sessions = [sid \in DOMAIN S.sessions \ expired |-> S.sessions[sid]]]

\* each loop works on the evaluated result of the one before it
sweep(S, currentTime) ==
    CHOOSE R \in
      {sweepSessions(T, currentTime) :
          T \in {sweepGames(U, 1, currentTime) :
                    U \in {sweepSockets(S, 1, currentTime)}}} : TRUE

Sweep ==
    /\ now >= nextSweepAt
    /\ Install(sweep(Store, now))
    /\ nextSweepAt' = now + SWEEP_INTERVAL_MS
    /\ UNCHANGED <<nextSocketId, now>>

\* ---- passage of time, to the next multiple of dt; a timer that is due fires before
\* the clock moves on ----
NextGrid(t, dt) == ((t \div dt) + 1) * dt

Tick(dt, maxTicks) ==
    /\ NextGrid(now, dt) <= maxTicks * dt
    /\ now < nextSweepAt
    /\ saveTimer = NULL \/ NextGrid(now, dt) <= saveTimer
    /\ now' = NextGrid(now, dt)
    /\ out' = <<>>
    /\ UNCHANGED <<sockets, nextSocketId, playerSessions, waitingPlayers, activeGames,
                   nextGameId, gameStates, pendingResults, users, sessions, rankings,
                   serverStats, nextSweepAt, ledgerWrites, lastRelayAt, saveTimer, flights,
                   disk, db, halted, usernames, nextUserId, hashing>>

\* the clock runs on until the pending save timer is due
AwaitSaveTimer ==
    /\ saveTimer # NULL
    /\ now < saveTimer
    /\ now < nextSweepAt
    /\ now' = saveTimer
    /\ out' = <<>>
    /\ UNCHANGED <<sockets, nextSocketId, playerSessions, waitingPlayers, activeGames,
                   nextGameId, gameStates, pendingResults, users, sessions, rankings,
                   serverStats, nextSweepAt, ledgerWrites, lastRelayAt, saveTimer, flights,
                   disk, db, halted, usernames, nextUserId, hashing>>

\* ---- saveDataImmediate: three awaited file writes, each serialised when it starts ----
\* what a call writes first: the users file (seen is history: the state when the call
\* was made)
startFlush(S, exits) ==
    [S EXCEPT !.flights = Append(@, [stage |-> 1, buf |-> S.users, exit |-> exits,
                                     seen |-> [users |-> S.users, rankings |-> S.rankings,
                                               sessions |-> S.sessions]])]

\* the write in progress of flight i completes; the next one is serialised and started
writeDone(S, i) ==
    LET f == S.flights[i]
    IN  IF f.stage = 1
        THEN [S EXCEPT !.disk.users = f.buf,
                       !.flights[i] = [stage |-> 2, buf |-> S.rankings, exit |-> f.exit,
                                       seen |-> f.seen]]
        ELSE IF f.stage = 2
        THEN [S EXCEPT !.disk.rankings = f.buf,
                       !.flights[i] = [stage |-> 3, buf |-> S.sessions, exit |-> f.exit,
                                       seen |-> f.seen]]
        ELSE [S EXCEPT !.disk.sessions = f.buf,
                       !.flights = [j \in 1 .. (Len(S.flights) - 1) |->
                                       IF j < i THEN S.flights[j] ELSE S.flights[j + 1]],
                       !.halted = f.exit]

\* seeded fault: the timer callback does nothing while a flush is in progress
timerCallbackSkipsWhenBusy(S) ==
    IF S.flights # <<>> THEN [S EXCEPT !.saveTimer = NULL]
    ELSE LET S1 == startFlush([S EXCEPT !.saveTimer = NULL], FALSE)
         IN  [S1 EXCEPT !.db = [users |-> S.users, rankings |-> S.rankings,
                                sessions |-> S.sessions]]

\* the setTimeout callback of saveData: start a flush, then the synchronous db upserts
timerCallback(S) ==
    LET S1 == startFlush([S EXCEPT !.saveTimer = NULL], FALSE)
    IN  [S1 EXCEPT !.db = [users |-> S.users, rankings |-> S.rankings,
                           sessions |-> S.sessions]]

SaveTimerFires(maxFlights) ==
    /\ saveTimer # NULL
    /\ now >= saveTimer
    /\ Len(flights) < maxFlights
    /\ Install(timerCallback(Store))
    /\ UNCHANGED <<nextSocketId, now, nextSweepAt>>

WriteCompletes(i) ==
    /\ i \in DOMAIN flights
    /\ Install(writeDone(Store, i))
    /\ UNCHANGED <<nextSocketId, now, nextSweepAt>>

\* ---- process.on('SIGINT' | 'SIGTERM'): flush, then exit ----
Signal(maxFlights) ==
    /\ Len(flights) < maxFlights
    /\ Install(startFlush(Store, TRUE))
    /\ UNCHANGED <<nextSocketId, now, nextSweepAt>>

\* ---- POST /api/update-trophies (routes/ranking.js) ----
\* the request's change is given in halves, so that non-integers can be sent
\* seeded fault: the schema lets any category through
schemaAcceptsAnyCategory(category, halves) ==
    /\ halves % 2 = 0
    /\ halves \div 2 >= -5
    /\ halves \div 2 <= 5

schemaAccepts(category, halves) ==
    /\ category = "mock"
    /\ halves % 2 = 0
    /\ halves \div 2 >= -5
    /\ halves \div 2 <= 5

HttpReply(status) == [ev |-> "http", status |-> status]

\* seeded fault: the new score is not floored at 0
newScoreNoFloor(oldScore, change) == oldScore + change

newScoreOf(oldScore, change) == Max(0, oldScore + change)

updateTrophies(S, sessionId, category, halves) ==
    IF ~schemaAccepts(category, halves) THEN Emit(S, HttpReply(400))
    ELSE
    LET r == getUserIdFromSession(S.sessions, sessionId, S.now)
        S1 == [S EXCEPT !.sessions = r.sessions]
    IN  IF r.userId = NULL \/ r.userId \notin DOMAIN S1.users THEN Emit(S1, HttpReply(401))
        ELSE
        LET oldScore == S1.users[r.userId].trophies.mock
            newScore == newScoreOf(oldScore, halves \div 2)
            S2 == [S1 EXCEPT !.users[r.userId].trophies.mock = newScore,
                             !.rankings.mock = rankingSet(@, r.userId, newScore)]
        IN  Emit(saveData(S2), HttpReply(200))

UpdateTrophies(sessionId, category, halves, maxMock) ==
    /\ Install(updateTrophies(Store, sessionId, category, halves))
    /\ \A u \in DOMAIN users' : users'[u].trophies.mock <= maxMock
    /\ UNCHANGED <<nextSocketId, now, nextSweepAt>>

\* ---- POST /api/verify-session (routes/auth.js); every account has its icon ----
verifySession(S, sessionId) ==
    LET r == getUserIdFromSession(S.sessions, sessionId, S.now)
        S1 == [S EXCEPT !.sessions = r.sessions]
    IN  IF r.userId = NULL \/ r.userId \notin DOMAIN S1.users THEN Emit(S1, HttpReply(401))
        ELSE Emit(S1, HttpReply(200))

VerifySession(sessionId) ==
    /\ Install(verifySession(Store, sessionId))
    /\ UNCHANGED <<nextSocketId, now, nextSweepAt>>

\* ---- POST /api/register (routes/auth.js) ----
\* z.string().min(3).max(20) and z.string().min(2).max(15)
registerSchemaAccepts(username, nickname) ==
    /\ Len(username) >= 3 /\ Len(username) <= 20
    /\ Len(nickname) >= 2 /\ Len(nickname) <= 15

\* the session token generateSessionId() hands to a new account: one never issued before
generateSessionId(userId) == userId + 3

nicknameTaken(us, nickname, exceptUserId) ==
    \E u \in DOMAIN us : u # exceptUserId /\ us[u].nickname = nickname

\* up to the await: validation and the two uniqueness tests, then the request is
\* suspended at bcrypt.hash
register(S, username, nickname) ==
    IF ~registerSchemaAccepts(username, nickname) THEN Emit(S, HttpReply(400))
    ELSE IF username \in DOMAIN S.usernames THEN Emit(S, HttpReply(400))
    ELSE IF nicknameTaken(S.users, nickname, NULL) THEN Emit(S, HttpReply(400))
    ELSE [S EXCEPT !.hashing = Append(@, [username |-> username, nickname |-> nickname])]

\* after the await: the account, its index entry, ranking entries and session
registerResumed(S, i) ==
    LET req == S.hashing[i]
        userId == S.nextUserId
        userData == [username |-> req.username, nickname |-> req.nickname,
                     trophies |-> [mock |-> 0, formal |-> 0],
                     lastNicknameChange |-> NeverChanged]
        S1 == [S EXCEPT !.nextUserId = @ + 1,
                        !.users = MapSet(@, userId, userData),
                        !.usernames = MapSet(@, req.username, userId),
                        !.rankings.mock = rankingSet(@, userId, 0),
                        !.rankings.formal = rankingSet(@, userId, 0),
                        !.sessions = MapSet(@, generateSessionId(userId),
                                            [userId |-> userId,
                                             expiresAt |-> S.now + SESSION_TTL_MS,
                                             lastUsedAt |-> S.now]),
                        !.hashing = [j \in 1 .. (Len(S.hashing) - 1) |->
                                        IF j < i THEN S.hashing[j] ELSE S.hashing[j + 1]]]
    IN  Emit(saveData(S1), HttpReply(200))

Register(username, nickname, maxHashing) ==
    /\ Len(hashing) < maxHashing
    /\ Install(register(Store, username, nickname))
    /\ UNCHANGED <<nextSocketId, now, nextSweepAt>>

RegisterResumes(i, maxUserId) ==
    /\ i \in DOMAIN hashing
    /\ nextUserId <= maxUserId
    /\ Install(registerResumed(Store, i))
    /\ UNCHANGED <<nextSocketId, now, nextSweepAt>>

\* ---- POST /api/change-nickname (routes/auth.js) ----
ONE_HOUR_MS == 3600000

changeNickname(S, sessionId, newNickname) ==
    IF Len(newNickname) < 2 \/ Len(newNickname) > 15 THEN Emit(S, HttpReply(400))
    ELSE
    LET r == getUserIdFromSession(S.sessions, sessionId, S.now)
        S1 == [S EXCEPT !.sessions = r.sessions]
    IN  IF r.userId = NULL \/ r.userId \notin DOMAIN S1.users THEN Emit(S1, HttpReply(401))
        ELSE IF /\ S1.users[r.userId].lastNicknameChange # NeverChanged
                /\ S1.now - S1.users[r.userId].lastNicknameChange < ONE_HOUR_MS
        THEN Emit(S1, HttpReply(400))
        ELSE IF nicknameTaken(S1.users, newNickname, r.userId) THEN Emit(S1, HttpReply(400))
        ELSE Emit(saveData([S1 EXCEPT !.users[r.userId].nickname = newNickname,
                                      !.users[r.userId].lastNicknameChange = S1.now]),
                  HttpReply(200))

ChangeNickname(sessionId, newNickname) ==
    /\ Install(changeNickname(Store, sessionId, newNickname))
    /\ UNCHANGED <<nextSocketId, now, nextSweepAt>>

\* ---- initial state: two registered accounts, each holding one session token ----
Nickname(u) == IF u = 1 THEN "nick1" ELSE "nick2"
Username(u) == IF u = 1 THEN "user1" ELSE "user2"
\* scores loaded at startup: account 1 has none yet, account 2 has 3
InitFormal(u) == IF u = 1 THEN 0 ELSE 3
EmptyMap == [x \in {} |-> NULL]

Init ==
    /\ sockets = {}
    /\ nextSocketId = 1
    /\ playerSessions = EmptyMap
    /\ waitingPlayers = <<>>
    /\ activeGames = EmptyMap
    /\ nextGameId = 1
    /\ gameStates = EmptyMap
    /\ pendingResults = EmptyMap
    /\ users = [u \in UserIds |-> [username |-> Username(u), nickname |-> Nickname(u),
                                   trophies |-> [mock |-> 0, formal |-> InitFormal(u)],
                                   lastNicknameChange |-> NeverChanged]]
    /\ sessions = [t \in UserIds |-> [userId |-> t, expiresAt |-> SESSION_TTL_MS,
                                      lastUsedAt |-> 0]]
    /\ rankings = [mock |-> [u \in UserIds |-> 0], formal |-> [u \in UserIds |-> InitFormal(u)]]
    /\ serverStats = [totalConnections |-> 0, activeGames |-> 0, waitingPlayers |-> 0,
                      totalMatches |-> 0]
    /\ now = 0
    /\ nextSweepAt = SWEEP_INTERVAL_MS
    /\ out = <<>>
    /\ ledgerWrites = [g \in GameIds |-> 0]
    /\ lastRelayAt = [g \in GameIds |-> 0]
    /\ saveTimer = NULL
    /\ flights = <<>>
    /\ disk = [users |-> users, rankings |-> rankings, sessions |-> sessions]
    /\ db = [users |-> users, rankings |-> rankings, sessions |-> sessions]
    /\ halted = FALSE
    /\ usernames = [n \in {Username(u) : u \in UserIds} |->
                       CHOOSE u \in UserIds : Username(u) = n]
    /\ nextUserId = 3
    /\ hashing = <<>>

Targets == SocketIds
Payloads == Snapshots \cup {NoSnapshot}

\* ---- startup: loadData from the legacy files (the database is empty) ----
\* a key of a ranking map read from rankings.json: a JSON number or a JSON string
NumKey(n) == [type |-> "number", num |-> n, str |-> ""]
StrKey(str) == [type |-> "string", num |-> 0, str |-> str]

NaN == -1
Digits == <<"0", "1", "2", "3", "4", "5", "6", "7", "8", "9">>
DigitOf(ch) == IF \E d \in 1 .. 10 : Digits[d] = ch
               THEN (CHOOSE d \in 1 .. 10 : Digits[d] = ch) - 1 ELSE NaN

RECURSIVE DecimalOf(_, _)
\* the value of the decimal digits str after the value acc of the digits before them
DecimalOf(str, acc) ==
    IF Len(str) = 0 THEN acc
    ELSE LET d == DigitOf(SubSeq(str, 1, 1))
         IN  IF d = NaN THEN NaN ELSE DecimalOf(SubSeq(str, 2, Len(str)), 10 * acc + d)

\* Number(key) for a key of letters and digits: the number a digit string denotes, NaN
\* when a letter occurs in it
NumberOf(str) == DecimalOf(str, 0)

\* rankMap.delete(key); if (foundUserId !== null) rankMap.set(foundUserId, score)
rekeyed(rankMap, key, foundUserId, score) ==
    IF foundUserId # NULL THEN MapSet(MapDelete(rankMap, key), NumKey(foundUserId), score)
    ELSE MapDelete(rankMap, key)

RECURSIVE migrateFrom(_, _, _, _)
\* the loop of migrateRankingKeysToUserId over the entries the map had when it started
migrateFrom(us, entries, i, rankMap) ==
    IF i > Len(entries) THEN rankMap
    ELSE
    LET key == entries[i].key
        score == entries[i].score
    IN  IF key.type = "string" /\ NumberOf(key.str) = NaN
        THEN LET holders == {uid \in DOMAIN us : us[uid].nickname = key.str}
                 foundUserId == IF holders = {} THEN NULL
                                ELSE CHOOSE uid \in holders : \A o \in holders : uid <= o
             IN  migrateFrom(us, entries, i + 1, rekeyed(rankMap, key, foundUserId, score))
        ELSE IF key.type = "string"
        THEN migrateFrom(us, entries, i + 1,
                         MapSet(MapDelete(rankMap, key), NumKey(NumberOf(key.str)), score))
        ELSE migrateFrom(us, entries, i + 1, rankMap)

\* new Map(entries)
MapOfEntries(entries) ==
    [k \in {entries[i].key : i \in DOMAIN entries} |->
        entries[CHOOSE i \in DOMAIN entries :
                   /\ entries[i].key = k
                   /\ \A j \in DOMAIN entries : entries[j].key = k => j <= i].score]

migrateRankingKeysToUserId(us, entries) == migrateFrom(us, entries, 1, MapOfEntries(entries))

\* the legacy path of loadData, all three files present: users and the username index,
\* the ranking maps read from their file and migrated, the sessions
loadData(S) ==
    LET us == S.disk.users
    IN  [S EXCEPT !.users = us,
                  !.usernames = [n \in {us[u].username : u \in DOMAIN us} |->
                                    CHOOSE u \in DOMAIN us :
                                        /\ us[u].username = n
                                        /\ \A o \in DOMAIN us : us[o].username = n => o <= u],
                  !.nextUserId = Max(CHOOSE u \in DOMAIN us : \A o \in DOMAIN us : o <= u, 0) + 1,
                  !.rankings = [mock |-> migrateRankingKeysToUserId(us, S.disk.rankings.mock),
                                formal |-> migrateRankingKeysToUserId(us, S.disk.rankings.formal)],
                  !.sessions = S.disk.sessions]

LoadData ==
    /\ users = EmptyMap
    /\ Install(loadData(Store))
    /\ UNCHANGED <<nextSocketId, now, nextSweepAt>>

\* the legacy files: account 1 is nick1 and account 2 has the nickname 12; ranking
\* entries keyed by account id, by an id written as a string, by the nickname of an
\* account, or by a nickname no account has
LegacyNickname(u) == IF u = 1 THEN "nick1" ELSE "12"
LegacyKeys == {NumKey(1), NumKey(2), StrKey("1"), StrKey("nick1"), StrKey("12"), StrKey("nick9")}
LegacyScores == {4, 7}
LegacyEntries == [key : LegacyKeys, score : LegacyScores]
\* entry lists of at most n entries with different keys
LegacyLists(n) ==
    UNION {{l \in [1 .. k -> LegacyEntries] :
               \A i \in 1 .. k, j \in 1 .. k : i # j => l[i].key # l[j].key} : k \in 0 .. n}

InitMigrate ==
    /\ sockets = {}
    /\ nextSocketId = 1
    /\ playerSessions = EmptyMap
    /\ waitingPlayers = <<>>
    /\ activeGames = EmptyMap
    /\ nextGameId = 1
    /\ gameStates = EmptyMap
    /\ pendingResults = EmptyMap
    /\ users = EmptyMap
    /\ sessions = EmptyMap
    /\ rankings = [mock |-> EmptyMap, formal |-> EmptyMap]
    /\ serverStats = [totalConnections |-> 0, activeGames |-> 0, waitingPlayers |-> 0,
                      totalMatches |-> 0]
    /\ now = 0
    /\ nextSweepAt = SWEEP_INTERVAL_MS
    /\ out = <<>>
    /\ ledgerWrites = [g \in GameIds |-> 0]
    /\ lastRelayAt = [g \in GameIds |-> 0]
    /\ saveTimer = NULL
    /\ flights = <<>>
    /\ \E m \in LegacyLists(MaxLegacyEntries), f \in LegacyLists(1) :
          disk = [users |-> [u \in UserIds |->
                                [username |-> Username(u), nickname |-> LegacyNickname(u),
                                 trophies |-> [mock |-> 0, formal |-> 0],
                                 lastNicknameChange |-> NeverChanged]],
                  rankings |-> [mock |-> m, formal |-> f],
                  sessions |-> EmptyMap]
    /\ db = [users |-> EmptyMap, rankings |-> [mock |-> EmptyMap, formal |-> EmptyMap],
             sessions |-> EmptyMap]
    /\ halted = FALSE
    /\ usernames = EmptyMap
    /\ nextUserId = 1
    /\ hashing = <<>>

NextMigrate == LoadData

SpecMigrate == InitMigrate /\ [][NextMigrate]_vars

\* ---- ranked play: two connections, accounts, claims, disconnects and the sweep ----
\* every id this environment ever issues, and one it never does
RankedIds == 1 .. (RankedConns + 1)

\* requests arrive further apart than a flush takes
Quiet == saveTimer = NULL /\ flights = <<>>

NextRanked ==
    \/ /\ Quiet
       /\ \/ Connect(RankedConns)
          \/ \E c \in RankedIds : Ping(c)
          \/ \E c \in RankedIds, t \in Tokens : Login(c, t)
          \/ \E c \in RankedIds, n \in ClientNames : RequestMatch(c, n, RankedGames, 1)
          \/ \E c \in RankedIds, t \in RankedIds, w \in RankedIds :
                GameOver(c, t, w, NoSnapshot)
          \/ \E c \in RankedIds : Disconnect(c)
          \/ Sweep
          \/ Tick(TickMs, MaxTicks)
    \/ AwaitSaveTimer
    \/ SaveTimerFires(1)
    \/ WriteCompletes(1)

SpecRanked == Init /\ [][NextRanked]_vars

\* ---- session tokens over days: resolutions, expiry and the sweep ----
Categories == {"mock", "formal"}
\* changes of -1, +1, 1.5 and 6
AuthHalves == {-2, 2, 3, 12}
\* the requests sent: each change with category mock, and a valid change with formal
AuthRequests == {<<"mock", h>> : h \in AuthHalves} \cup {<<"formal", 2>>}

NextAuth ==
    \/ /\ Quiet
       /\ \/ Connect(AuthConns)
          \/ \E c \in 1 .. AuthConns, t \in Tokens : Login(c, t)
          \/ \E t \in Tokens : VerifySession(t)
          \/ /\ now % AuthTickMs < AuthSaves * SAVE_DEBOUNCE_MS
             /\ \E t \in Tokens, r \in AuthRequests :
                   UpdateTrophies(t, r[1], r[2], AuthMock)
          \/ Sweep
          \/ Tick(AuthTickMs, AuthTicks)
    \/ AwaitSaveTimer
    \/ SaveTimerFires(1)
    \/ WriteCompletes(1)

SpecAuth == Init /\ [][NextAuth]_vars

\* ---- persistence: saveData calls, the debounce timer, slow writes and signals ----
NextSave ==
    /\ ~halted
    /\ \/ UpdateTrophies(1, "mock", 2, SaveMock)
       \/ SaveTimerFires(MaxFlights)
       \/ \E i \in 1 .. MaxFlights : WriteCompletes(i)
       \/ Signal(MaxFlights)
       \/ Tick(SaveTickMs, SaveTicks)

SpecSave == Init /\ [][NextSave]_vars

\* ---- persistence to the end: score changes while the horizon still holds the flush
\* they schedule, the debounce timer, the file writes and a shutdown signal; a timer
\* that is due fires, a write in progress completes and time passes ----
FlushUpdate ==
    /\ now + SAVE_DEBOUNCE_MS <= SaveTicks * SaveTickMs
    /\ UpdateTrophies(1, "mock", 2, SaveMock)

NextFlush ==
    /\ ~halted
    /\ \/ FlushUpdate
       \/ SaveTimerFires(MaxFlights)
       \/ \E i \in 1 .. MaxFlights : WriteCompletes(i)
       \/ Signal(MaxFlights)
       \/ Tick(SaveTickMs, SaveTicks)

SpecFlush ==
    /\ Init
    /\ [][NextFlush]_vars
    /\ WF_vars(~halted /\ SaveTimerFires(MaxFlights))
    /\ \A i \in 1 .. MaxFlights : WF_vars(~halted /\ WriteCompletes(i))
    /\ WF_vars(~halted /\ Tick(SaveTickMs, SaveTicks))

\* ---- every way a score changes: update-trophies, commits and forfeits ----
\* changes of -5, +2 and 6
ScoreHalves == {-10, 4, 12}
ScoreIds == 1 .. ScoreConns

NextScores ==
    \/ /\ Quiet
       /\ \/ Connect(ScoreConns)
          \/ \E c \in ScoreIds, t \in UserIds : Login(c, t)
          \/ \E c \in ScoreIds, n \in ClientNames : RequestMatch(c, n, ScoreGames, 1)
          \/ \E c \in ScoreIds, t \in ScoreIds, w \in ScoreIds :
                GameOver(c, t, w, NoSnapshot)
          \/ \E c \in ScoreIds : Disconnect(c)
          \/ /\ now < ScoreSaves * SAVE_DEBOUNCE_MS
             /\ \E t \in UserIds, k \in Categories, h \in ScoreHalves :
                   UpdateTrophies(t, k, h, ScoreMock)
    \/ AwaitSaveTimer
    \/ SaveTimerFires(1)
    \/ WriteCompletes(1)

SpecScores == Init /\ [][NextScores]_vars


\* ---- accounts: register requests that suspend at the password hash, nickname
\* changes an hour apart or less, and the flush they schedule ----
NewUsernames == {"user1", "user3"}
NewNicknames == {"nick1", "nick3", "n"}

NextAccounts ==
    \/ /\ Quiet
       /\ \/ \E n \in NewUsernames, k \in NewNicknames : Register(n, k, MaxHashing)
          \/ \E i \in 1 .. MaxHashing : RegisterResumes(i, MaxUserId)
          \/ \E t \in Tokens, k \in NewNicknames : ChangeNickname(t, k)
          \/ Tick(AccountTickMs, AccountTicks)
    \/ AwaitSaveTimer
    \/ SaveTimerFires(1)
    \/ WriteCompletes(1)

SpecAccounts == Init /\ [][NextAccounts]_vars

\* ---- events without a payload, among guests and users of one account who pair and
\* leave ----
ThrowIds == 1 .. ThrowConns

NextThrow ==
    \/ Connect(ThrowConns)
    \/ \E c \in ThrowIds : Login(c, 1)
    \/ \E c \in ThrowIds, n \in ClientNames : RequestMatch(c, n, ThrowGames, 1)
    \/ \E c \in ThrowIds : RequestMatchWithoutPayload(c, ThrowGames, 1)
    \/ \E c \in ThrowIds, e \in DestructuringEvents : EventWithoutPayload(c, e)
    \/ \E c \in ThrowIds : Disconnect(c)

SpecThrow == Init /\ [][NextThrow]_vars

\* ---- every teardown path: guests pair, mirror snapshots through gameState and
\* gameOver, commit, leave, fall silent and are reaped ----
TearIds == 1 .. TearConns

NextTeardown ==
    \/ Connect(TearConns)
    \/ \E c \in TearIds : Ping(c)
    \/ \E c \in TearIds, n \in ClientNames : RequestMatch(c, n, TearGames, 1)
    \/ \E c \in TearIds, t \in TearIds, g \in Snapshots : GameState(c, t, g)
    \/ \E c \in TearIds, t \in TearIds, w \in TearIds, g \in Payloads : GameOver(c, t, w, g)
    \/ \E c \in TearIds : Disconnect(c)
    \/ Sweep
    \/ Tick(TickMs, TearTicks)

SpecTeardown == Init /\ [][NextTeardown]_vars

\* ---- former players: sessions are committed, torn down by a disconnect or reaped,
\* and their players go on sending relays and outcome claims to one another ----
FormerIds == 1 .. FormerConns

NextFormer ==
    \/ Connect(FormerConns)
    \/ \E c \in FormerIds, n \in ClientNames : RequestMatch(c, n, FormerGames, 1)
    \/ \E c \in FormerIds, t \in FormerIds : Offer(c, t)
    \/ \E c \in FormerIds, t \in FormerIds, g \in Snapshots : GameState(c, t, g)
    \/ \E c \in FormerIds, t \in FormerIds, w \in FormerIds : GameOver(c, t, w, NoSnapshot)
    \/ \E c \in FormerIds : Disconnect(c)
    \/ Sweep
    \/ Tick(TickMs, FormerTicks)

SpecFormer == Init /\ [][NextFormer]_vars

\* ---- trophies and ranking entries: account 1 and an account that registers, both
\* changing their scores by update-trophies, ranked outcomes and forfeits ----
\* the token of account 1 and the one the new account is given
TrophyTokens == {1, generateSessionId(3)}
\* changes of -5 and +2
TrophyHalves == {-10, 4}

NextTrophies ==
    \/ /\ Quiet
       /\ \/ Connect(ScoreConns)
          \/ Register("user3", "nick3", 1)
          \/ RegisterResumes(1, 3)
          \/ \E c \in ScoreIds, t \in TrophyTokens : Login(c, t)
          \/ \E c \in ScoreIds, n \in ClientNames : RequestMatch(c, n, ScoreGames, 1)
          \/ \E c \in ScoreIds, t \in ScoreIds, w \in ScoreIds :
                GameOver(c, t, w, NoSnapshot)
          \/ \E c \in ScoreIds : Disconnect(c)
          \/ /\ now < TrophySaves * SAVE_DEBOUNCE_MS
             /\ \E t \in TrophyTokens, h \in TrophyHalves :
                   UpdateTrophies(t, "mock", h, ScoreMock)
    \/ AwaitSaveTimer
    \/ SaveTimerFires(1)
    \/ WriteCompletes(1)

SpecTrophies == Init /\ [][NextTrophies]_vars

\* ---- the lobby: three guest connections, two sessions, claims and disconnects ----
NextLobby ==
    \/ Connect(LobbyConns)
    \/ \E c \in SocketIds, n \in ClientNames : RequestMatch(c, n, LobbyGames, MaxWaitingStat)
    \/ \E c \in SocketIds, t \in Targets, w \in SocketIds : GameOver(c, t, w, NoSnapshot)
    \/ \E c \in SocketIds : Disconnect(c)

SpecLobby == Init /\ [][NextLobby]_vars

\* ---- matchmaking alone: every connection asks for a match once ----
NextMatch ==
    \/ Connect(MatchConns)
    \/ \E c \in SocketIds, t \in Tokens : Login(c, t)
    \/ \E c \in SocketIds, n \in ClientNames :
          /\ c \in sockets
          /\ ~playerSessions[c].isWaiting
          /\ RequestMatch(c, n, MatchConns, MatchConns)

SpecMatch == Init /\ [][NextMatch]_vars

\* ---- an idle session: two guests, the relay, heartbeats and the sweep ----
NextIdle ==
    \/ Connect(IdleConns)
    \/ \E c \in SocketIds : Ping(c)
    \/ \E c \in SocketIds, n \in ClientNames : RequestMatch(c, n, IdleGames, 1)
    \/ \E c \in SocketIds, t \in Targets : Offer(c, t)
    \/ \E c \in SocketIds, t \in Targets : Answer(c, t)
    \/ \E c \in SocketIds, t \in Targets : IceCandidate(c, t)
    \/ \E c \in SocketIds, t \in Targets, g \in Snapshots : GameState(c, t, g)
    \/ \E c \in SocketIds, t \in Targets, g \in Snapshots : CardPlayed(c, t, g)
    \/ \E c \in SocketIds, t \in Targets, g \in Snapshots : TurnEnd(c, t, g)
    \/ \E c \in SocketIds : RequestGameState(c)
    \/ \E c \in SocketIds : Disconnect(c)
    \/ Sweep
    \/ Tick(IdleTickMs, IdleTicks)

SpecIdle == Init /\ [][NextIdle]_vars


\* ---- the life of a session: guests pair, claim, ping or fall silent, leave; the sweep
\* timer keeps firing and time keeps passing. Sessions are created while the horizon
\* still holds a sweep after their idle timeout. ----
LifeIds == 1 .. LifeConns

NextLife ==
    \/ Connect(LifeConns)
    \/ \E c \in LifeIds : Ping(c)
    \/ \E c \in LifeIds, n \in ClientNames :
          /\ FirstMatch(Store, c) # NULL => now + IDLE_TIMEOUT_MS < LifeTicks * LifeTickMs
          /\ RequestMatch(c, n, LifeGames, 1)
    \/ \E c \in LifeIds, t \in LifeIds, w \in LifeIds : GameOver(c, t, w, NoSnapshot)
    \/ \E c \in LifeIds : Disconnect(c)
    \/ Sweep
    \/ Tick(LifeTickMs, LifeTicks)

SpecLife ==
    /\ Init
    /\ [][NextLife]_vars
    /\ WF_vars(Sweep)
    /\ WF_vars(Tick(LifeTickMs, LifeTicks))

\* ---- the state mirror: guests pair and report snapshots through gameState,
\* cardPlayed, turnEnd and gameOver ----
Blobs == {"s1", "s2"}
MirrorIds == 1 .. MirrorConns
\* the winners claimed: the first and the last connection
MirrorWinners == {1, MirrorConns}

NextMirror ==
    \/ Connect(MirrorConns)
    \/ \E c \in MirrorIds, n \in ClientNames : RequestMatch(c, n, MirrorGames, 1)
    \/ \E c \in MirrorIds, t \in MirrorIds, g \in Blobs : GameState(c, t, g)
    \/ \E c \in MirrorIds, t \in MirrorIds, g \in Blobs \cup {NoSnapshot} :
          CardPlayed(c, t, g)
    \/ \E c \in MirrorIds, t \in MirrorIds, g \in Blobs \cup {NoSnapshot} :
          TurnEnd(c, t, g)
    \/ \E c \in MirrorIds, t \in MirrorIds, w \in MirrorWinners, g \in Blobs \cup {NoSnapshot} :
          GameOver(c, t, w, g)
    \/ \E c \in MirrorIds : Disconnect(c)

SpecMirror == Init /\ [][NextMirror]_vars

\* ---- heartbeats: two guests ping or fall silent while the sweep fires every 30 s ----
HeartIds == 1 .. HeartConns

NextHeart ==
    \/ Connect(HeartConns)
    \/ \E c \in HeartIds : Ping(c)
    \/ \E c \in HeartIds, n \in ClientNames : RequestMatch(c, n, HeartGames, 1)
    \/ \E c \in HeartIds : Disconnect(c)
    \/ Sweep
    \/ Tick(SWEEP_INTERVAL_MS, HeartTicks)

SpecHeart == Init /\ [][NextHeart]_vars

\* ======================= properties =======================
PlayersOfSession(gameSession) == {gameSession.players[1].id, gameSession.players[2].id}
PlayersOf(g) == PlayersOfSession(activeGames[g])
SessionsListing(c) == {g \in DOMAIN activeGames : c \in PlayersOf(g)}
OpponentIn(g, c) == getOpponentSocketId(activeGames, g, c)
RelayEvents == {"offer", "answer", "iceCandidate", "gameState", "cardPlayed", "turnEnd",
                "gameOver"}
FormalOf(u) == <<users[u].trophies.formal, MapGet(rankings.formal, u)>>
FormalScores == [u \in DOMAIN users |-> FormalOf(u)]
\* the gameOver handler accepts the claim "w won" sent by c with target t
ClaimAccepted(c, t, w) ==
    /\ c \in sockets
    /\ t \in sockets
    /\ arePlayersInSameGame(playerSessions, activeGames, c, t)
    /\ w \in PlayersOf(playerSessions[c].gameId)
\* this step is the gameOver handler recording that claim; the conjuncts before
\* GameOver are consequences of it, evaluated first
GameOverStep(c, t, w) ==
    /\ sockets' = sockets /\ playerSessions' = playerSessions /\ now' = now
    /\ ClaimAccepted(c, t, w)
    /\ LET g == playerSessions[c].gameId
       IN  \/ g \notin DOMAIN activeGames'
           \/ /\ g \in DOMAIN pendingResults'
              /\ c \in DOMAIN pendingResults'[g]
              /\ pendingResults'[g][c] = w
    /\ GameOver(c, t, w, NoSnapshot)
\* the handler that just ran committed an outcome: what it sent to the two players
CommittedTo(msgs, c, opp, w) ==
    /\ \E i \in DOMAIN msgs : /\ msgs[i].ev = "gameOver" /\ msgs[i].to = opp
                              /\ msgs[i].from = c /\ msgs[i].winner = w
    /\ \E i \in DOMAIN msgs : /\ msgs[i].ev = "gameOver" /\ msgs[i].to = c
                              /\ msgs[i].from = opp /\ msgs[i].winner = w
\* the scoring rule applied to the accounts of the connections wc (winner) and lc (loser)
ScoreRule(wc, lc) ==
    LET wu == playerSessions[wc].userId
        lu == playerSessions[lc].userId
    IN  /\ users'[wu].trophies.formal = users[wu].trophies.formal + 2
        /\ MapGet(rankings'.formal, wu) = users[wu].trophies.formal + 2
        /\ users'[lu].trophies.formal = Max(0, users[lu].trophies.formal - 1)
        /\ MapGet(rankings'.formal, lu) = Max(0, users[lu].trophies.formal - 1)
        /\ \A u \in DOMAIN users \ {wu, lu} :
              /\ users'[u] = users[u]
              /\ MapGet(rankings'.formal, u) = MapGet(rankings.formal, u)
        /\ rankings'.mock = rankings.mock

\* C1: a relayed message (offer, answer, iceCandidate, gameState, cardPlayed, turnEnd,
\* gameOver) reaches a live recipient only if sender and recipient have, when it is
\* sent, the same gameId and that gameId is a session of the active-games map.
C1_RelayOnlyWithinSession ==
    [][\A i \in DOMAIN out' :
          (out'[i].ev \in RelayEvents /\ out'[i].to \in sockets)
          => LET a == getGameIdOf(playerSessions, out'[i].from)
                 b == getGameIdOf(playerSessions, out'[i].to)
             IN  a # NULL /\ a = b /\ a \in DOMAIN activeGames]_vars

\* C2: when the gameOver handler records a claim, the outcome is committed (gameOver
\* sent to both players, session and pending outcome removed) if and only if both
\* players now have a claim on record and the two claims name the same winner;
\* otherwise nothing is sent, no score changes and the session stays active.
C2_CommitIffClaimsAgree ==
    [][\A c \in sockets :
          playerSessions[c].gameId \in DOMAIN activeGames
          => \A t \in sockets, w \in PlayersOf(playerSessions[c].gameId) :
                GameOverStep(c, t, w)
                => LET g == playerSessions[c].gameId
                       opp == OpponentIn(g, c)
                       claims == MapSet(IF g \in DOMAIN pendingResults
                                        THEN pendingResults[g] ELSE EmptyMap, c, w)
                       agree == opp \in DOMAIN claims /\ claims[opp] = claims[c]
                   IN  IF agree
                       THEN /\ CommittedTo(out', c, opp, w)
                            /\ g \notin DOMAIN activeGames'
                            /\ g \notin DOMAIN pendingResults'
                       ELSE /\ out' = <<>>
                            /\ g \in DOMAIN activeGames'
                            /\ users' = users /\ rankings' = rankings
                            /\ g \in DOMAIN pendingResults'
                            /\ pendingResults'[g] = claims]_vars

\* C2 witness: an outcome has just been committed, both players being told the winner
C2_Witness ==
    /\ Len(out) = 2
    /\ out[1].ev = "gameOver" /\ out[2].ev = "gameOver"
    /\ out[1].winner = out[2].winner
    /\ DOMAIN activeGames = {}
    /\ DOMAIN pendingResults = {}

\* C3: the formal ranking is written for a game at most once, only while its session
\* is in the active-games map, and the session leaves the map in that same step; no
\* other step changes a formal score.
C3_LedgerAtMostOnce ==
    [][/\ \A g \in GameIds : ledgerWrites'[g] <= 1
       /\ \A g \in GameIds : g \notin DOMAIN activeGames => ledgerWrites'[g] = ledgerWrites[g]
       /\ \A g \in GameIds : ledgerWrites'[g] # ledgerWrites[g] => g \notin DOMAIN activeGames'
       /\ FormalScores' # FormalScores
          => \E g \in DOMAIN activeGames : ledgerWrites'[g] = ledgerWrites[g] + 1]_vars

\* C3 witness: the ranking was written for game 1 and both connections have gone since
C3_Witness ==
    /\ ledgerWrites[1] = 1
    /\ 1 \notin DOMAIN activeGames
    /\ nextSocketId > 2
    /\ sockets = {}

\* C4: whenever an outcome is committed for a session whose two connections are both
\* authenticated, the winner's account gains 2 and the loser's becomes max(0, s - 1),
\* in trophies and in the formal ranking, and no other account changes.
C4_BothAuthenticatedScored ==
    [][\A c \in sockets :
          playerSessions[c].gameId \in DOMAIN activeGames
          => \A t \in sockets, w \in PlayersOf(playerSessions[c].gameId) :
                (/\ GameOverStep(c, t, w)
                 /\ playerSessions[c].gameId \notin DOMAIN activeGames'
                 /\ \A p \in PlayersOf(playerSessions[c].gameId) :
                       p \in DOMAIN playerSessions /\ ~playerSessions[p].isGuest)
                => ScoreRule(w, OpponentIn(playerSessions[c].gameId, w))]_vars

HasGuest(g) ==
    \E i \in 1 .. 2 :
        \/ activeGames[g].players[i].isGuest
        \/ /\ activeGames[g].players[i].id \in DOMAIN playerSessions
           /\ playerSessions[activeGames[g].players[i].id].isGuest
\* C5: a session with a guest player (by the session's record or by the connection's
\* present state) never has its outcome written to the ranking, by a commit or by a
\* disconnect; and trophies and rankings change only when a session without guests
\* is written.
C5_GuestSessionUnranked ==
    [][/\ \A g \in DOMAIN activeGames : HasGuest(g) => ledgerWrites'[g] = ledgerWrites[g]
       /\ (users' # users \/ rankings' # rankings)
          => \E g \in DOMAIN activeGames : ~HasGuest(g) /\ ledgerWrites'[g] # ledgerWrites[g]]_vars

\* C5 witness: an outcome was committed for a session one of whose players is a guest
\* and the other is logged in
C5_Witness ==
    /\ Len(out) = 2
    /\ out[1].ev = "gameOver"
    /\ {out[1].to, out[1].from} \subseteq sockets
    /\ playerSessions[out[1].to].isGuest
    /\ ~playerSessions[out[1].from].isGuest

\* isWaiting is set by requestMatch and never cleared
Requested(c) == playerSessions[c].isWaiting
\* C6: once every live connection has called requestMatch (each once, nobody having
\* disconnected), the number of sessions created is floor(N/2) and the waiting set
\* holds one connection when N is odd, none when N is even.
C6_PairsFloorHalf ==
    (\A c \in sockets : Requested(c))
    => /\ nextGameId - 1 = Cardinality(sockets) \div 2
       /\ Cardinality(DOMAIN activeGames) = Cardinality(sockets) \div 2
       /\ Len(waitingPlayers) = Cardinality(sockets) % 2

\* C6 witness: three connections have all asked; one session exists, one waits
C6_Witness ==
    /\ Cardinality(sockets) = 3
    /\ \A c \in sockets : Requested(c)
    /\ Cardinality(DOMAIN activeGames) = 1
    /\ Len(waitingPlayers) = 1

\* C7: no connection is listed as a player by more than one session of the
\* active-games map.
C7_OneSessionPerConnection ==
    \A c \in SocketIds : Cardinality(SessionsListing(c)) <= 1

\* C8: a connection record's gameId is non-null if and only if exactly one session of
\* the active-games map lists the connection.
C8_GameIdIffListed ==
    \A c \in DOMAIN playerSessions :
        playerSessions[c].gameId # NULL <=> Cardinality(SessionsListing(c)) = 1

BothAuthenticated(a, b) ==
    /\ ~playerSessions[a].isGuest /\ playerSessions[a].userId # NULL
    /\ ~playerSessions[b].isGuest /\ playerSessions[b].userId # NULL
\* C9: when a player A of an active session disconnects while the opponent B is live,
\* B is sent opponentDisconnected with that session's gameId and isDisconnectedAsLoser
\* true and the session is removed; if both are authenticated, the ranking is written
\* once for the session, A losing 1 (floor 0) and B gaining 2.
C9_DisconnectForfeits ==
    [][\A a \in sockets :
          (sockets' = sockets \ {a} /\ Disconnect(a))
          => \A g \in SessionsListing(a) :
                OpponentIn(g, a) \in sockets
                => /\ \E i \in DOMAIN out' :
                         /\ out'[i].ev = "opponentDisconnected"
                         /\ out'[i].to = OpponentIn(g, a)
                         /\ out'[i].gameId = g
                         /\ out'[i].isDisconnectedAsLoser
                   /\ g \notin DOMAIN activeGames'
                   /\ BothAuthenticated(a, OpponentIn(g, a))
                      => /\ ledgerWrites'[g] = ledgerWrites[g] + 1
                         /\ ScoreRule(OpponentIn(g, a), a)]_vars

\* C10: at every sweep, each session for which no message has been relayed for more
\* than 300 s is removed from the active-games map together with its state mirror,
\* and the active-game counter goes down by the number of sessions removed.
C10_IdleSessionReaped ==
    [][nextSweepAt' # nextSweepAt
       => /\ \A g \in DOMAIN activeGames :
                now - lastRelayAt[g] > IDLE_TIMEOUT_MS
                => g \notin DOMAIN activeGames' /\ g \notin DOMAIN gameStates'
          /\ serverStats'.activeGames
                = serverStats.activeGames
                  - Cardinality(DOMAIN activeGames \ DOMAIN activeGames')]_vars

\* C10 witness: the sweep has just reaped a session whose two connections are live
C10_Witness ==
    \E i \in DOMAIN out :
        /\ out[i].ev = "log" /\ out[i].what = "reap"
        /\ Cardinality({c \in sockets : playerSessions[c].gameId = out[i].id}) = 2

\* C11: every score of the mock and formal ranking maps and every account's trophies
\* value is a non-negative integer.
C11_ScoresNonNegative ==
    /\ \A u \in DOMAIN users : users[u].trophies.mock \in Nat /\ users[u].trophies.formal \in Nat
    /\ \A u \in DOMAIN rankings.mock : rankings.mock[u] \in Nat
    /\ \A u \in DOMAIN rankings.formal : rankings.formal[u] \in Nat

\* C11 witness: an update-trophies request has raised account 1's mock score, and
\* account 1 has then lost a ranked game to account 2 with a formal score of 0
C11_Witness ==
    /\ ledgerWrites[1] = 1
    /\ users[1].trophies.formal = 0
    /\ users[2].trophies.formal = InitFormal(2) + 2
    /\ users[1].trophies.mock = 2

\* a step in which token t is resolved: by verify-session, by a socket login or by a
\* well-formed update-trophies request
TouchesOnly(t) ==
    /\ now' = now
    /\ sockets' = sockets
    /\ flights' = flights
    /\ DOMAIN sessions' \subseteq DOMAIN sessions
    /\ \A t2 \in DOMAIN sessions \ {t} : t2 \in DOMAIN sessions' /\ sessions'[t2] = sessions[t2]
\* the conjuncts of TouchesOnly are consequences of the handlers, evaluated first
Resolves(t) ==
    /\ TouchesOnly(t)
    /\ out' # <<HttpReply(400)>>
    /\ \/ VerifySession(t)
       \/ \E c \in sockets : Login(c, t)
       \/ \E k \in Categories, h \in AuthHalves :
             schemaAccepts(k, h) /\ UpdateTrophies(t, k, h, AuthMock)
\* the resolution returned null: the caller is refused and no account or connection
\* record changes
ResolvedToNull ==
    /\ out' \in {<<>>, <<HttpReply(401)>>}
    /\ users' = users
    /\ rankings' = rankings
    /\ playerSessions' = playerSessions
Expired(t) == t \in DOMAIN sessions /\ sessions[t].expiresAt < now

\* C12: resolving a token whose expiresAt is earlier than the current time returns null
\* and removes it from the session store; resolving an unknown token returns null and
\* leaves the store as it is; a token that is not in the store never comes back, so
\* every later resolution of it returns null as well.
C12_ExpiredTokenRemoved ==
    [][\A t \in Tokens :
          /\ (Expired(t) /\ Resolves(t))
             => ResolvedToNull /\ sessions' = MapDelete(sessions, t)
          /\ (t \notin DOMAIN sessions /\ Resolves(t))
             => ResolvedToNull /\ sessions' = sessions
          /\ t \notin DOMAIN sessions => t \notin DOMAIN sessions']_vars

\* C12 witness: token 1 has just been refused and removed while token 2, expired as
\* well, is still in the store (no sweep has removed either)
C12_Witness ==
    /\ out = <<HttpReply(401)>>
    /\ 1 \notin DOMAIN sessions
    /\ 2 \in DOMAIN sessions
    /\ sessions[2].expiresAt < now

\* C13: whenever requestMatch pairs a requester with a waiting connection, both are
\* sent matchFound with the same new gameId, the requester with isHost true and the
\* peer with isHost false, each naming the other as opponent; the peer is a live
\* connection other than the requester that was waiting, and neither is in the waiting
\* set afterwards.
C13_MatchFoundToBoth ==
    [][nextGameId' # nextGameId
       => \E c \in sockets, m \in sockets :
             /\ c # m
             /\ InSeq(waitingPlayers, m)
             /\ nextGameId \notin DOMAIN activeGames
             /\ PlayersOfSession(activeGames'[nextGameId]) = {c, m}
             /\ Len(out') = 2
             /\ out'[1].ev = "matchFound" /\ out'[2].ev = "matchFound"
             /\ out'[1].to = c /\ out'[1].isHost /\ out'[1].opponent.id = m
             /\ out'[2].to = m /\ ~out'[2].isHost /\ out'[2].opponent.id = c
             /\ out'[1].gameId = nextGameId /\ out'[2].gameId = nextGameId
             /\ ~InSeq(waitingPlayers', c)
             /\ ~InSeq(waitingPlayers', m)]_vars

\* C13 witness: a pairing has just been announced to both sides
C13_Witness ==
    /\ Len(out) = 2
    /\ out[1].ev = "matchFound"
    /\ out[2].ev = "matchFound"
    /\ out[1].gameId = 2

\* C14: at no time are two persistence flushes in progress together.
C14_OneFlushInFlight == Len(flights) <= 1

\* the last saveData call, in an environment where update-trophies with token 1 is the
\* only caller: the moment token 1 was last resolved
LastSaveCallAt == sessions[1].lastUsedAt
\* this step starts a flush from the debounce timer
TimerFlushStarts ==
    /\ Len(flights') = Len(flights) + 1
    /\ ~flights'[Len(flights')].exit
CurrentState == [users |-> users, rankings |-> rankings, sessions |-> sessions]

\* C15 as stated: saveData calls each within the debounce window of the previous one
\* produce one flush, one window after the last call, and everything that flush writes
\* is the state as of the moment it started.
C15_FlushWritesStateAtStart ==
    \A i \in DOMAIN flights :
        /\ flights[i].stage = 1 => flights[i].buf = flights[i].seen.users
        /\ flights[i].stage = 2 => flights[i].buf = flights[i].seen.rankings
        /\ flights[i].stage = 3 => flights[i].buf = flights[i].seen.sessions

\* C15 as amended: a saveData call starts no flush and leaves one timer pending, due one
\* window after the call; the timer starts a flush exactly one window after the last
\* call and leaves no timer pending; that flush writes the users file and the database
\* copy with the state as of that moment, and the rankings and sessions files with the
\* state as of the moment its preceding write completed.
C15_OneFlushAfterLastCall ==
    [][/\ (saveTimer' # NULL /\ (saveTimer' # saveTimer \/ out' = <<HttpReply(200)>>))
          => /\ saveTimer' = now + SAVE_DEBOUNCE_MS
             /\ flights' = flights
       /\ TimerFlushStarts
          => /\ saveTimer # NULL
             /\ now = LastSaveCallAt + SAVE_DEBOUNCE_MS
             /\ saveTimer' = NULL
             /\ flights'[Len(flights')].buf = users
             /\ db' = CurrentState
       /\ \A i \in DOMAIN flights :
             (i \in DOMAIN flights' /\ flights'[i].stage = flights[i].stage + 1 /\ WriteCompletes(i))
             => flights'[i].buf = IF flights[i].stage = 1 THEN rankings ELSE sessions]_vars

\* C15 witness: three calls, each within the window of the previous one, have been
\* followed by a single flush, which has started at 400 ms and is still writing
C15_Witness ==
    /\ users[1].trophies.mock = 3
    /\ LastSaveCallAt = 200
    /\ now = 400
    /\ saveTimer = NULL
    /\ Len(flights) = 1
    /\ disk.users[1].trophies.mock = 0

\* a step of one of the six relay handlers, from c towards target
RelayStep(c, target) ==
    \/ Offer(c, target)
    \/ Answer(c, target)
    \/ IceCandidate(c, target)
    \/ \E g \in Snapshots : GameState(c, target, g)
    \/ \E g \in Snapshots : CardPlayed(c, target, g)
    \/ \E g \in Snapshots : TurnEnd(c, target, g)

\* C16: whenever a relay of any of the six event types is rejected, the sender
\* receives a rejection notice and the target receives nothing.
C16_RejectedRelayNotifiesSender ==
    [][\A c \in sockets, target \in Targets :
          (~relayAllowed(Store, c, target) /\ RelayStep(c, target))
          => /\ \E i \in DOMAIN out' : out'[i].ev = "serverError" /\ out'[i].to = c
             /\ \A i \in DOMAIN out' : out'[i].to # target \/ target = c]_vars

\* C17: a connection in an active session that sends requestGameState receives the
\* session's latest mirrored snapshot.
C17_RequestGameStateAnswered ==
    [][\A c \in sockets :
          (/\ playerSessions[c].gameId \in DOMAIN activeGames
           /\ playerSessions[c].gameId \in DOMAIN gameStates
           /\ RequestGameState(c))
          => \E i \in DOMAIN out' :
                /\ out'[i].to = c
                /\ "gameState" \in DOMAIN out'[i]
                /\ out'[i].gameState = gameStates[playerSessions[c].gameId]]_vars

\* the request is well formed as the specification words it: category mock and an
\* integer change from -5 to 5 (the change is given in halves)
WellFormed(category, halves) ==
    /\ category = "mock"
    /\ \E change \in -5 .. 5 : halves = 2 * change
\* the account a live token stands for, NULL when there is none
AccountOf(t) ==
    IF t \in DOMAIN sessions /\ sessions[t].expiresAt >= now /\ sessions[t].userId \in DOMAIN users
    THEN sessions[t].userId
    ELSE NULL

\* a step that answers an HTTP request
HttpStep ==
    /\ now' = now
    /\ nextSweepAt' = nextSweepAt
    /\ flights' = flights
    /\ out' \in {<<HttpReply(200)>>, <<HttpReply(400)>>, <<HttpReply(401)>>}

\* C18: an update-trophies request is applied only when its category is mock, its
\* change is an integer from -5 to 5 and its token resolves to an account: then the
\* account's mock trophies and mock ranking entry become max(0, old + change); any other
\* request is refused and leaves every trophies value and both ranking maps as they
\* were; no request changes a formal score.
C18_UpdateTrophiesValidated ==
    [][HttpStep
       => \A t \in Tokens, k \in Categories, h \in AuthHalves :
             \/ /\ (WellFormed(k, h) /\ AccountOf(t) # NULL)
                   => /\ out' = <<HttpReply(200)>>
                      /\ users'[AccountOf(t)].trophies.mock
                            = Max(0, users[AccountOf(t)].trophies.mock + h \div 2)
                      /\ rankings'.mock[AccountOf(t)] = users'[AccountOf(t)].trophies.mock
                      /\ \A u \in DOMAIN users \ {AccountOf(t)} : users'[u] = users[u]
                /\ ~(WellFormed(k, h) /\ AccountOf(t) # NULL)
                   => /\ out' \in {<<HttpReply(400)>>, <<HttpReply(401)>>}
                      /\ users' = users
                      /\ rankings' = rankings
                /\ rankings'.formal = rankings.formal
                /\ \A u \in DOMAIN users : users'[u].trophies.formal = users[u].trophies.formal
             \/ ~TouchesOnly(t)
             \/ ~UpdateTrophies(t, k, h, AuthMock)]_vars

\* C18 witness: a request with a live token has raised account 1's mock score from 0 to
\* 1 and its save is pending, and later requests in the same behaviour are refused
C18_Witness ==
    /\ out = <<HttpReply(200)>>
    /\ saveTimer # NULL
    /\ users[1].trophies.mock = 1
    /\ rankings.mock[1] = 1

\* C19: every authorised relayed game message sets its session's last activity to the
\* time of the message, so a session reaped by the idle sweep has had no message
\* relayed during the last 300 s.
C19_RelayKeepsSessionAlive ==
    [][/\ \A g \in DOMAIN activeGames' :
             lastRelayAt'[g] # lastRelayAt[g] => activeGames'[g].lastActivity = now
       /\ nextSweepAt' # nextSweepAt
          => \A i \in DOMAIN out' :
                (out'[i].ev = "log" /\ out'[i].what = "reap")
                => now - lastRelayAt[out'[i].id] > IDLE_TIMEOUT_MS]_vars

\* C20: every pending-result entry belongs to a session that is still in the
\* active-games map.
C20_PendingResultsOfActiveGames == DOMAIN pendingResults \subseteq DOMAIN activeGames

\* connection a is logged in to an account
Authenticated(a) == ~playerSessions[a].isGuest /\ playerSessions[a].userId # NULL
\* the opponent of a in session g is an account user: as its connection record says
\* while it has one, as the session recorded it otherwise
OpponentAuthenticated(g, a) ==
    LET b == OpponentIn(g, a)
    IN  IF b \in DOMAIN playerSessions
        THEN Authenticated(b)
        ELSE \E i \in DOMAIN activeGames[g].players :
                activeGames[g].players[i].id = b /\ ~activeGames[g].players[i].isGuest
\* the account of connection a has been written as the loser of a formal duel
LoserRecorded(a) ==
    LET lu == playerSessions[a].userId
    IN  /\ users'[lu].trophies.formal = Max(0, users[lu].trophies.formal - 1)
        /\ MapGet(rankings'.formal, lu) = Max(0, users[lu].trophies.formal - 1)

\* C21: when an authenticated player disconnects from an unresolved session between
\* two authenticated players, the disconnecting side's account is recorded as the
\* loser, once, whatever claims are on file and whether or not the opponent is live.
C21_ForcedForfeitUnconditional ==
    [][\A a \in sockets :
          (sockets' = sockets \ {a} /\ Disconnect(a))
          => \A g \in SessionsListing(a) :
                (Authenticated(a) /\ OpponentAuthenticated(g, a))
                => /\ ledgerWrites'[g] = ledgerWrites[g] + 1
                   /\ LoserRecorded(a)]_vars

\* C22: every session that is created is eventually removed from the active-games
\* map, whatever claims its players filed, as long as the sweep timer keeps firing;
\* a gameId that has been removed never becomes an active session again.
C22_SessionEventuallyRemoved ==
    /\ \A g \in GameIds : (g \in DOMAIN activeGames) ~> (g \notin DOMAIN activeGames)
    /\ [][\A g \in GameIds :
             (g \in DOMAIN activeGames' /\ g \notin DOMAIN activeGames) => g = nextGameId]_vars

\* C22 witness: the sweep has just reaped session 1 while both its players are live
\* and their disagreeing claims are on file
C22_Witness ==
    /\ \E i \in DOMAIN out : out[i].ev = "log" /\ out[i].what = "reap" /\ out[i].id = 1
    /\ 1 \notin DOMAIN activeGames
    /\ 1 \in DOMAIN pendingResults
    /\ \E a, b \in sockets :
          /\ a # b
          /\ a \in DOMAIN pendingResults[1] /\ b \in DOMAIN pendingResults[1]
          /\ pendingResults[1][a] # pendingResults[1][b]

\* C23: a gameOver whose claimed winner is neither of the two players of the sender's
\* session is discarded: no claim is recorded, nothing is sent, and the pending
\* outcomes, the state mirror, the sessions, the counters and the scores stay as they
\* were.
C23_InvalidWinnerDiscarded ==
    [][\A c \in sockets, t \in sockets, w \in MirrorWinners, g \in Blobs \cup {NoSnapshot} :
          (/\ relayAllowed(Store, c, t)
           /\ w \notin PlayersOf(playerSessions[c].gameId)
           /\ GameOver(c, t, w, g))
          => /\ out' = <<>>
             /\ pendingResults' = pendingResults
             /\ gameStates' = gameStates
             /\ activeGames' = activeGames
             /\ playerSessions' = playerSessions
             /\ serverStats' = serverStats
             /\ users' = users
             /\ rankings' = rankings]_vars

\* C24: immediately after the disconnect handler of connection c has run, c is not in
\* the waiting set, c has no connection record, no session of the active-games map
\* lists c as a player, and no pending outcome holds a claim filed by c.
C24_DisconnectCleansUp ==
    [][\A c \in sockets :
          (sockets' = sockets \ {c} /\ Disconnect(c))
          => /\ ~InSeq(waitingPlayers', c)
             /\ c \notin DOMAIN playerSessions'
             /\ \A g \in DOMAIN activeGames' : c \notin PlayersOfSession(activeGames'[g])
             /\ \A g \in DOMAIN pendingResults' : c \notin DOMAIN pendingResults'[g]]_vars

\* connection c has sent no ping for more than 120 s
Silent(c) == now - playerSessions[c].lastPing > HEARTBEAT_TIMEOUT_MS
\* the disconnect clean-up of c has been done
CleanedUp(c) ==
    /\ c \notin sockets'
    /\ c \notin DOMAIN playerSessions'
    /\ ~InSeq(waitingPlayers', c)
    /\ playerSessions[c].gameId # NULL => playerSessions[c].gameId \notin DOMAIN activeGames'

\* C25: a connection that has sent no ping for more than 120 s is disconnected, with
\* the disconnect clean-up, by the next sweep, which comes at most 30 s later; a
\* connection that pings at least once every 120 s is never disconnected by the sweep.
C25_HeartbeatTimeout ==
    [][/\ \A c \in sockets :
             /\ Silent(c) => /\ now >= nextSweepAt
                             /\ now - playerSessions[c].lastPing
                                   <= HEARTBEAT_TIMEOUT_MS + SWEEP_INTERVAL_MS
       /\ nextSweepAt' # nextSweepAt
          => \A c \in sockets : IF Silent(c) THEN CleanedUp(c)
                                ELSE c \in sockets' /\ c \in DOMAIN playerSessions']_vars

\* C25 witness: the sweep at 150 s has disconnected connection 1, silent since it
\* connected, and kept connection 2, whose last ping was exactly 120 s ago
C25_Witness ==
    /\ now = 150000
    /\ nextSweepAt = 180000
    /\ sockets = {2}
    /\ playerSessions[2].lastPing = 30000
    /\ \E i \in DOMAIN out : out[i].ev = "opponentDisconnected" /\ out[i].to = 2

\* token t was last resolved (or issued) no longer than the TTL ago
UsedWithinTtl(t) == t \in DOMAIN sessions /\ now - sessions[t].lastUsedAt <= SESSION_TTL_MS

\* C26: every successful resolution of a token at time t sets its expiresAt to t plus
\* the TTL and its lastUsedAt to t; a token resolved at intervals no longer than the
\* TTL is never rejected as expired and never removed, by a lookup or by the sweep.
C26_SlidingExpiry ==
    [][\A t \in Tokens :
          /\ (t \in DOMAIN sessions /\ ~Expired(t))
             => \/ /\ t \in DOMAIN sessions'
                   /\ sessions'[t].expiresAt = now + SESSION_TTL_MS
                   /\ sessions'[t].lastUsedAt = now
                \/ ~Resolves(t)
          /\ UsedWithinTtl(t)
             => /\ ~Expired(t)
                /\ t \in DOMAIN sessions'
                /\ out' \in {<<>>, <<HttpReply(200)>>} \/ ~Resolves(t)]_vars

\* C26 witness: token 1, resolved at 0, at half the TTL and exactly one TTL after
\* that, is still accepted two TTLs after it was issued, after the sweep has removed
\* the unused token 2
C26_Witness ==
    /\ now = 2 * SESSION_TTL_MS
    /\ 1 \in DOMAIN sessions
    /\ sessions[1].lastUsedAt = 2 * SESSION_TTL_MS
    /\ sessions[1].expiresAt = 3 * SESSION_TTL_MS
    /\ 2 \notin DOMAIN sessions
    /\ out = <<HttpReply(200)>>

\* this step is the requestMatch handler of c with the client-supplied name n
RequestMatchBy(c, n) ==
    /\ sockets' = sockets
    /\ playerSessions'[c].isWaiting
    /\ RequestMatch(c, n, MatchConns, MatchConns)
\* the name the specification gives connection c when it asks with name n
ExpectedName(c, n) ==
    IF Authenticated(c) THEN users[playerSessions[c].userId].nickname ELSE n
\* the name recorded for the caller of requestMatch, and what a pairing reports
NamesAtRequest ==
    \A c \in sockets, n \in ClientNames :
        RequestMatchBy(c, n)
        => /\ playerSessions'[c].name = ExpectedName(c, n)
           /\ nextGameId' # nextGameId
              => /\ Len(out') = 2
                 /\ out'[2].to = out'[1].opponent.id
                 /\ out'[2].opponent.id = c
                 /\ out'[2].opponent.name = ExpectedName(c, n)
                 /\ \E i \in DOMAIN activeGames'[nextGameId].players :
                       /\ activeGames'[nextGameId].players[i].id = c
                       /\ activeGames'[nextGameId].players[i].name = ExpectedName(c, n)
                 /\ out'[1].opponent.name = playerSessions[out'[1].opponent.id].name
\* c's recorded name is changed by a step that is not a requestMatch of c
RenamedOutsideRequest(c) ==
    /\ c \in DOMAIN playerSessions'
    /\ playerSessions'[c].name # playerSessions[c].name
    /\ \A n \in ClientNames : ~RequestMatchBy(c, n)

\* C27: requestMatch records for its caller the account's nickname at that moment if
\* the caller is authenticated, whatever playerName it supplied, and the supplied
\* playerName only if it is a guest; a pairing reports the caller to its opponent
\* under the name just recorded and the waiting side under its recorded name; the
\* only other change of a recorded name is a socket login, which sets it to the
\* nickname of the account logged in to, never to a client-supplied name.
C27_NameForcedToNickname ==
    [][/\ NamesAtRequest
       /\ \A m \in sockets :
             RenamedOutsideRequest(m)
             => /\ ~playerSessions'[m].isGuest
                /\ playerSessions'[m].userId \in DOMAIN users
                /\ playerSessions'[m].name = users[playerSessions'[m].userId].nickname]_vars

\* C27 witness: an authenticated requester that supplied the name alice has been
\* paired with a waiting guest and is reported to it under its nickname
C27_Witness ==
    /\ Len(out) = 2
    /\ out[1].ev = "matchFound"
    /\ out[2].ev = "matchFound"
    /\ ~out[2].opponent.isGuest
    /\ out[2].opponent.name = Nickname(playerSessions[out[2].opponent.id].userId)
    /\ out[1].opponent.isGuest
    /\ out[1].opponent.name = "alice"

\* C28: the waitingPlayers figure of serverStats, and the waitingCount just sent in a
\* waitingForMatch, equal the number of connections in the waiting set.
C28_WaitingCountAccurate ==
    /\ serverStats.waitingPlayers = Len(waitingPlayers)
    /\ \A i \in DOMAIN out :
          out[i].ev = "waitingForMatch" => out[i].waitingCount = Len(waitingPlayers)

\* C29: every session in the active-games map has exactly two player entries, with
\* two different connection ids, exactly one of which is marked host.
C29_SessionHasTwoPlayers ==
    \A g \in DOMAIN activeGames :
        /\ Len(activeGames[g].players) = 2
        /\ activeGames[g].players[1].id # activeGames[g].players[2].id
        /\ Cardinality({i \in DOMAIN activeGames[g].players :
                           activeGames[g].players[i].isHost}) = 1

\* C29 witness: two sessions are active at once and one connection, which asked for a
\* match again, is a player of both
C29_Witness ==
    /\ Cardinality(DOMAIN activeGames) = 2
    /\ \E c \in sockets : Cardinality(SessionsListing(c)) = 2

\* what an authorised relay of c towards t with payload g sends
RelayedOut(c, t, g) ==
    /\ Len(out') = 1
    /\ out'[1].to = t
    /\ "from" \in DOMAIN out'[1] /\ out'[1].from = c
    /\ "gameState" \in DOMAIN out'[1] /\ out'[1].gameState = g
\* what an authorised gameOver of c with payload g sends: nothing, or the outcome
GameOverOut(c, g) ==
    \/ out' = <<>>
    \/ /\ Len(out') = 2
       /\ out'[1].ev = "gameOver" /\ out'[1].from = c /\ out'[1].gameState = g
\* this step is an authorised gameState, cardPlayed, turnEnd or gameOver message of c
\* towards t carrying the snapshot g; the conjuncts before each handler are
\* consequences of it, evaluated first
MirrorMessage(c, t, g) ==
    /\ sockets' = sockets
    /\ playerSessions' = playerSessions
    /\ nextGameId' = nextGameId
    /\ relayAllowed(Store, c, t)
    /\ \/ RelayedOut(c, t, g) /\ GameState(c, t, g)
       \/ RelayedOut(c, t, g) /\ CardPlayed(c, t, g)
       \/ RelayedOut(c, t, g) /\ TurnEnd(c, t, g)
       \/ GameOverOut(c, g) /\ \E w \in MirrorWinners : GameOver(c, t, w, g)
\* the mirror of session gid is written by this step
MirrorWritten(gid) ==
    /\ gid \in DOMAIN gameStates'
    /\ gid \notin DOMAIN gameStates \/ gameStates'[gid] # gameStates[gid]

\* C30: an authorised gameState, cardPlayed, turnEnd or gameOver message that carries a
\* snapshot leaves that snapshot in the mirror of its session while the session lives,
\* whichever player sent it and whatever the mirror held; nothing else writes a mirror,
\* so the mirror holds the snapshot of the most recent such message and a message
\* whose relay is rejected never changes it.
C30_MirrorLastWriteWins ==
    [][/\ \A c \in sockets, t \in sockets, g \in Blobs :
             (relayAllowed(Store, c, t) /\ playerSessions[c].gameId \in DOMAIN activeGames')
             => \/ /\ playerSessions[c].gameId \in DOMAIN gameStates'
                   /\ gameStates'[playerSessions[c].gameId] = g
                \/ ~MirrorMessage(c, t, g)
       /\ \A gid \in GameIds :
             MirrorWritten(gid)
             => \E c \in sockets, t \in sockets, g \in Blobs :
                   /\ relayAllowed(Store, c, t)
                   /\ playerSessions[c].gameId = gid
                   /\ gameStates'[gid] = g
                   /\ MirrorMessage(c, t, g)]_vars

\* C30 witness: connection 2 has just reported s2 in a turnEnd and the mirror of its
\* session, which held s1 from connection 1's gameOver claim, now holds s2
C30_Witness ==
    /\ Len(out) = 1
    /\ out[1].ev = "turnEnd" /\ out[1].from = 2 /\ out[1].gameState = "s2"
    /\ 1 \in DOMAIN gameStates /\ gameStates[1] = "s2"
    /\ 1 \in DOMAIN pendingResults /\ 1 \in DOMAIN pendingResults[1]

\* ---- C31 ----
\* no two accounts share a username, and none share a nickname
NamesUnique ==
    \A u \in DOMAIN users, v \in DOMAIN users :
        u # v => /\ users[u].username # users[v].username
                 /\ users[u].nickname # users[v].nickname

\* the accounts, their index and their ranking entries are as before the step
AccountsUntouched ==
    /\ users' = users
    /\ usernames' = usernames
    /\ rankings' = rankings
    /\ hashing' = hashing

\* C31: in every reachable state no two accounts share a username and no two share a
\* nickname, whatever the interleaving of register and change-nickname requests
\* (registrations overlapping at the password hash included); a request for a name
\* that is taken is answered 400 and changes no account
C31_UniqueNames ==
    /\ []NamesUnique
    /\ [][/\ \A n \in NewUsernames, k \in NewNicknames :
                (n \in DOMAIN usernames \/ nicknameTaken(users, k, NULL))
                => \/ out' = <<HttpReply(400)>> /\ AccountsUntouched
                   \/ ~Register(n, k, MaxHashing)
          /\ \A t \in Tokens, k \in NewNicknames :
                (t \in DOMAIN sessions /\ nicknameTaken(users, k, sessions[t].userId))
                => \/ AccountsUntouched
                   \/ ~ChangeNickname(t, k)]_vars

\* ---- C32 ----
\* the step is an event of c whose handler throws on the missing payload
Throws(c) ==
    \/ \E e \in DestructuringEvents : EventWithoutPayload(c, e)
    \/ readsPayload(playerSessions[c]) /\ RequestMatchWithoutPayload(c, ThrowGames, 1)

\* the server state apart from the messages sent is as before the step
ServerStateKept ==
    /\ sockets' = sockets
    /\ playerSessions' = playerSessions
    /\ waitingPlayers' = waitingPlayers
    /\ activeGames' = activeGames
    /\ gameStates' = gameStates
    /\ pendingResults' = pendingResults
    /\ serverStats' = serverStats
    /\ users' = users
    /\ rankings' = rankings
    /\ sessions' = sessions
    /\ halted' = halted

\* C32: when a socket handler throws on a missing payload the sender is sent a
\* serverError, and every connection record, waiting entry and session (and the rest of
\* the server state) stays as it was, so that later events are handled as before
C32_HandlerErrorContained ==
    [][\A c \in sockets :
          \/ /\ \E i \in DOMAIN out' : out'[i].ev = "serverError" /\ out'[i].to = c
             /\ ServerStateKept
          \/ ~Throws(c)]_vars

\* a waiting guest and a session exist, and a handler has just thrown for a player
C32_Witness ==
    /\ Len(out) = 2
    /\ out[1].ev = "serverError" /\ out[1].context = "requestMatch"
    /\ out[1].to \in DOMAIN playerSessions /\ playerSessions[out[1].to].gameId # NULL
    /\ activeGames # EmptyMap
    /\ waitingPlayers # <<>>

\* ---- C33 ----
\* update-trophies has just set the mock score of account 1 to v
JustMutated(v) ==
    /\ out = <<HttpReply(200)>>
    /\ rankings.mock[1] = v

\* C33: every ranking mutation is eventually followed by a flush that contains the new
\* score: once update-trophies has set the mock score of account 1 to v, the rankings
\* file comes to hold v for it, unless the score is changed again before (and then the
\* same is required of the newer score)
C33_MutationEventuallyFlushed ==
    \A v \in 0 .. SaveMock :
        JustMutated(v) ~> (disk.rankings.mock[1] = v \/ rankings.mock[1] # v)

\* ---- C34 ----
\* the startup load has run
Loaded == users # EmptyMap

\* what the claim requires of a migrated ranking map, given the entries of its file
MigratedAsClaimed(rankMap, entries) ==
    /\ \A k \in DOMAIN rankMap : k.type = "number" /\ k.num \in DOMAIN users
    /\ \A i \in DOMAIN entries :
          LET key == entries[i].key
          IN  /\ (key.type = "string" /\ \E u \in DOMAIN users : users[u].nickname = key.str)
                 => \E u \in DOMAIN users :
                       /\ users[u].nickname = key.str
                       /\ NumKey(u) \in DOMAIN rankMap
                       /\ rankMap[NumKey(u)] = entries[i].score
              /\ (key.type = "number" /\ key.num \in DOMAIN users)
                 => /\ key \in DOMAIN rankMap
                    /\ rankMap[key] = entries[i].score

\* C34: after the startup load from the legacy files every key of the mock and formal
\* ranking maps is a numeric account id, a score stored under a nickname is under the id
\* of the account that has that nickname, and the score of an entry keyed by an account
\* id is kept as it was
C34_LegacyKeysMigrated ==
    Loaded => /\ MigratedAsClaimed(rankings.mock, disk.rankings.mock)
              /\ MigratedAsClaimed(rankings.formal, disk.rankings.formal)

\* ---- C35 ----
\* C35: in every reachable state the activeGames figure of serverStats is the number of
\* sessions in the active-games map
C35_ActiveGamesCounted == serverStats.activeGames = Cardinality(DOMAIN activeGames)

\* two sessions were created; the second has just been committed and removed, the first
\* is still in the map
C35_Witness ==
    /\ serverStats.totalMatches = 2
    /\ DOMAIN activeGames = {1}
    /\ serverStats.activeGames = 1
    /\ out # <<>> /\ out[1].ev = "gameOver"

\* ---- C36 ----
\* C36: in every reachable state every gameId that has a mirrored snapshot is a session
\* in the active-games map
C36_MirrorOnlyOfLiveSessions == DOMAIN gameStates \subseteq DOMAIN activeGames

\* both sessions had a mirror; the second has just been committed and its mirror is
\* gone, the first session still has its own
C36_Witness ==
    /\ Len(out) = 2 /\ out[1].ev = "gameOver"
    /\ DOMAIN activeGames = {1}
    /\ DOMAIN gameStates = {1}
    /\ ledgerWrites[2] = 0 /\ serverStats.totalMatches = 2

\* ---- C37 ----
\* C37: in every reachable state, for every account and each category in which it has a
\* ranking entry, the account's trophies value equals that entry
C37_TrophiesMatchRanking ==
    \A u \in DOMAIN users :
        /\ u \in DOMAIN rankings.mock => users[u].trophies.mock = rankings.mock[u]
        /\ u \in DOMAIN rankings.formal => users[u].trophies.formal = rankings.formal[u]

\* account 1 has raised its mock score, and the account that registered has won a
\* ranked game against it
C37_Witness ==
    /\ 3 \in DOMAIN users
    /\ users[1].trophies.mock = 2
    /\ users[3].trophies.formal = 2
    /\ ledgerWrites[1] = 1

\* ---- C38 ----
\* the waiting set holds at most one connection, and that connection is live
AtMostOneWaiting ==
    /\ Len(waitingPlayers) <= 1
    /\ \A i \in DOMAIN waitingPlayers : waitingPlayers[i] \in sockets

\* C38: in every reachable state the waiting set holds at most one connection, and that
\* connection is live; a requestMatch that finds a live waiting peer pairs with it and
\* leaves the waiting set empty, and a disconnect takes the connection out of the
\* waiting set in the same step
C38_AtMostOneWaiting ==
    /\ []AtMostOneWaiting
    /\ [][/\ \A c \in sockets :
                (waitingPlayers # <<>> /\ waitingPlayers[1] # c)
                => \/ /\ waitingPlayers' = <<>>
                      /\ nextGameId \in DOMAIN activeGames'
                      /\ PlayersOfSession(activeGames'[nextGameId]) = {c, waitingPlayers[1]}
                   \/ \A n \in ClientNames : ~RequestMatch(c, n, LobbyGames, MaxWaitingStat)
          /\ \A c \in sockets :
                \/ ~InSeq(waitingPlayers', c)
                \/ ~Disconnect(c)]_vars

\* a connection waits again, after the peer it was paired with has left
C38_Witness ==
    /\ Len(waitingPlayers) = 1
    /\ serverStats.totalMatches = 1
    /\ activeGames = EmptyMap
    /\ Cardinality(sockets) = 2
    /\ nextSocketId = 4

\* ---- C39 ----
\* both players of session g were account users when the session recorded them
RankedAtPairing(g) == \A i \in 1 .. 2 : ~activeGames[g].players[i].isGuest

PairedNow(a, b) == \E g \in DOMAIN activeGames : PlayersOf(g) = {a, b}
\* the records of a and b name the same session, which has been removed
FormerPlayers(a, b) ==
    /\ a \in sockets /\ b \in sockets
    /\ playerSessions[a].gameId # NULL
    /\ playerSessions[a].gameId = playerSessions[b].gameId
    /\ playerSessions[a].gameId \notin DOMAIN activeGames
\* this step delivers nothing to t and records nothing
NothingDeliveredOrRecorded(t) ==
    /\ \A i \in DOMAIN out' : "to" \in DOMAIN out'[i] => out'[i].to # t
    /\ pendingResults' = pendingResults
    /\ gameStates' = gameStates
    /\ lastRelayAt' = lastRelayAt
    /\ ledgerWrites' = ledgerWrites
    /\ users' = users /\ rankings' = rankings
    /\ activeGames' = activeGames

\* C40: once a session has been removed, by commit, disconnect or idle reap, a relay or
\* a gameOver claim sent by one of its former players towards the other delivers nothing
\* to the other and records nothing, as long as no live session lists the two; this
\* holds while their connection records still name the removed session
C40_NothingAfterRemoval ==
    [][\A c \in sockets, t \in sockets :
          (c # t /\ ~PairedNow(c, t))
          => \/ NothingDeliveredOrRecorded(t)
             \/ /\ ~RelayStep(c, t)
                /\ \A w \in FormerIds, g \in Payloads : ~GameOver(c, t, w, g)]_vars

\* C40 witness: session 1 of connections 1 and 2 has been removed and both records still
\* name it; connection 1 has just sent an offer to connection 2 and been refused
C40_Witness ==
    /\ FormerPlayers(1, 2)
    /\ playerSessions[1].gameId = 1
    /\ Len(out) = 2 /\ out[1] = ServerError(1, "offer")
====
